---- MODULE Spec2Model ----
(***************************************************************************)
(* Model of the CrowdDetection backend (src/backend): the crowd state      *)
(* model (services/crowd_intelligence.py and api/endpoints/crowd.py), the  *)
(* alerts (api/endpoints/alerts.py), the route planners                    *)
(* (services/advanced_routing.py, api/endpoints/routing.py,                *)
(* services/routing_service.py), the accessibility optimizer and the road  *)
(* network of the routing engine.                                          *)
(*                                                                         *)
(* Each subsystem has its own specification over its own variables; the    *)
(* variables of the other subsystems stay at their initial values.         *)
(***************************************************************************)
EXTENDS Integers, Sequences, FiniteSets, TLC

VARIABLES
    current_detections,  \* CrowdIntelligenceEngine.current_detections (the published dict)
    nextGen,             \* identity of the next dict _generate_realistic_crowd_data builds
    tasks,               \* the HTTP requests handled by the event loop, by task id
    AI_ROUTING_AVAILABLE, \* routing.py: whether the engine could be imported
    call,                \* the route-planning call in progress and its result
    ALL_LOCATIONS,       \* routing_service.py: the POIs loaded at import
    unsafe_nodes,        \* routing_service.py: nodes next to a "police" POI
    steep_nodes,         \* routing_service.py: nodes next to a "hospital" POI
    smart,               \* the compute_smart_path call in progress and its result
    access,              \* the optimize_for_accessibility call in progress and its result
    crowd_engine,        \* crowd_intelligence.py: the engine's detections, with their content
    alerts_call,         \* alerts.py: the get_current_alerts call in progress and its result
    ai_routing_engine,   \* advanced_routing.py: the routing engine under construction
    generated_alert      \* alert_service.py: the generate_alert call made and what it returned

crowdVars == <<current_detections, nextGen, tasks>>

routeVars == <<AI_ROUTING_AVAILABLE, call>>

smartVars == <<ALL_LOCATIONS, unsafe_nodes, steep_nodes, smart>>

accessVars == <<access>>

alertVars == <<crowd_engine, alerts_call>>

networkVars == <<ai_routing_engine>>

serviceVars == <<generated_alert>>

vars == <<current_detections, nextGen, tasks, AI_ROUTING_AVAILABLE, call,
          ALL_LOCATIONS, unsafe_nodes, steep_nodes, smart, access,
          crowd_engine, alerts_call, ai_routing_engine, generated_alert>>

notCrowdVars == <<routeVars, smartVars, accessVars, alertVars, networkVars, serviceVars>>

notRouteVars == <<crowdVars, smartVars, accessVars, alertVars, networkVars, serviceVars>>

notSmartVars == <<crowdVars, routeVars, accessVars, alertVars, networkVars, serviceVars>>

notAccessVars == <<crowdVars, routeVars, smartVars, alertVars, networkVars, serviceVars>>

notAlertVars == <<crowdVars, routeVars, smartVars, accessVars, networkVars, serviceVars>>

notNetworkVars == <<crowdVars, routeVars, smartVars, accessVars, alertVars, serviceVars>>

notServiceVars == <<crowdVars, routeVars, smartVars, accessVars, alertVars, networkVars>>

(***************************************************************************)
(* Bounds                                                                  *)
(***************************************************************************)
\* Number of HTTP requests to the crowd endpoints in one behaviour.
MaxTasks == 3

TaskIds == 1..MaxTasks

(***************************************************************************)
(* Crowd State Model: services/crowd_intelligence.py                       *)
(***************************************************************************)
\* Keys of locations_data, in the insertion order the refresh loop visits.
LocOrder == <<"main_ghat", "mahakal_temple", "shipra_ghat_1",
              "transport_hub_central", "food_court_1">>

NumLocs == Len(LocOrder)

Locs == {LocOrder[i] : i \in 1..NumLocs}

\* A dict with no keys (detections = {}).
EmptyDict == [l \in {} |-> 0]

\* The CrowdDetection built for one location by the generation numbered g.
Detection(l, g) == [location_id |-> l, gen |-> g]

\* The dict a complete run of _generate_realistic_crowd_data returns.
FullDict(g) == [l \in Locs |-> Detection(l, g)]

\* d with d[l] = e (detections[loc_id] = detection).
DictPut(d, l, e) == [k \in (DOMAIN d) \cup {l} |-> IF k = l THEN e ELSE d[k]]

(***************************************************************************)
(* Requests: api/endpoints/crowd.py, api/endpoints/alerts.py               *)
(***************************************************************************)
ReaderKinds == {"flow", "demographics", "analytics", "alerts"}

TaskKinds == {"refresh"} \cup ReaderKinds

\* How many times a handler evaluates crowd_engine.current_detections.
NumReads(kind) ==
    CASE kind = "flow"         -> 4   \* crowd.py 206, 217, 218 (twice)
      [] kind = "demographics" -> 3   \* crowd.py 299, 304, 317
      [] kind = "analytics"    -> 6   \* crowd_intelligence.py 329, 330 (twice), 334, 344, 349
      [] kind = "alerts"       -> 1   \* crowd_intelligence.py 425
      [] OTHER                 -> 0

\* `behind` is a history field: the refresh requests that had just published
\* their snapshot (and had not answered yet) when this refresh request arrived.
NoTask == [kind |-> "none", status |-> "none", pc |-> "none", gen |-> 0, idx |-> 0,
           detections |-> EmptyDict, reads |-> <<>>, failedLoc |-> "none",
           result |-> "none", behind |-> {}]

\* The refresh requests that have published their snapshot and have not
\* answered yet.
RefreshInFlight ==
    {u \in TaskIds : tasks[u].kind = "refresh" /\ tasks[u].status = "active"
                     /\ tasks[u].pc = "respond"}

\* A handler that has started and has not returned yet.
Active(t) == tasks[t].status = "active"

\* Every handler is an `async def` coroutine that never awaits anything that
\* suspends: once the event loop starts it, it runs to its return before the loop
\* starts or resumes any other handler.
MayRunThreaded(t) == TRUE

MayRun(t) == \A u \in TaskIds \ {t} : ~Active(u)

\* The published dict while a refresh generates one more location: the loop
\* writes the local dict `detections` only.
CurrentAfterLocationInPlace(cur, l, e) == [cur EXCEPT !.entries[l] = e]

CurrentAfterLocation(cur, l, e) == cur

\* A request reaches the server and waits for the event loop.
Arrive(t, kind) ==
    /\ tasks[t].status = "none"
    /\ tasks' = [tasks EXCEPT ![t] = [NoTask EXCEPT !.kind = kind, !.status = "pending",
                                                    !.behind = IF kind = "refresh"
                                                               THEN RefreshInFlight
                                                               ELSE {}]]
    /\ UNCHANGED <<current_detections, nextGen>>
    /\ UNCHANGED notCrowdVars

\* update_crowd_data -> _generate_realistic_crowd_data: detections = {}.
RefreshBegin(t) ==
    /\ tasks[t].kind = "refresh"
    /\ tasks[t].status = "pending"
    /\ MayRun(t)
    /\ tasks' = [tasks EXCEPT ![t].status = "active", ![t].pc = "generate",
                              ![t].gen = nextGen, ![t].idx = 1,
                              ![t].detections = EmptyDict]
    /\ nextGen' = nextGen + 1
    /\ UNCHANGED current_detections
    /\ UNCHANGED notCrowdVars

\* One iteration of `for loc_id, data in locations_data.items()`.
RefreshLocation(t) ==
    /\ Active(t)
    /\ tasks[t].pc = "generate"
    /\ tasks[t].idx <= NumLocs
    /\ MayRun(t)
    /\ LET l == LocOrder[tasks[t].idx]
           e == Detection(l, tasks[t].gen)
       IN  /\ tasks' = [tasks EXCEPT ![t].detections = DictPut(tasks[t].detections, l, e),
                                     ![t].idx = tasks[t].idx + 1]
           /\ current_detections' = CurrentAfterLocation(current_detections, l, e)
    /\ UNCHANGED nextGen
    /\ UNCHANGED notCrowdVars

\* The generation of one location raises: nothing in the loop catches it, so the
\* exception leaves _generate_realistic_crowd_data and update_crowd_data.
RefreshLocationRaises(t) ==
    /\ Active(t)
    /\ tasks[t].pc = "generate"
    /\ tasks[t].idx <= NumLocs
    /\ MayRun(t)
    /\ tasks' = [tasks EXCEPT ![t].pc = "raised", ![t].failedLoc = LocOrder[tasks[t].idx]]
    /\ UNCHANGED <<current_detections, nextGen>>
    /\ UNCHANGED notCrowdVars

\* return detections; self.current_detections = <the returned dict>.
RefreshPublish(t) ==
    /\ Active(t)
    /\ tasks[t].pc = "generate"
    /\ tasks[t].idx = NumLocs + 1
    /\ MayRun(t)
    /\ current_detections' = [id |-> tasks[t].gen, entries |-> tasks[t].detections]
    /\ tasks' = [tasks EXCEPT ![t].pc = "respond", ![t].detections = EmptyDict]
    /\ UNCHANGED nextGen
    /\ UNCHANGED notCrowdVars

\* The endpoint returns {"status": "success", ...}.
RefreshRespond(t) ==
    /\ Active(t)
    /\ tasks[t].kind = "refresh"
    /\ tasks[t].pc = "respond"
    /\ MayRun(t)
    /\ tasks' = [tasks EXCEPT ![t].status = "done", ![t].pc = "done",
                              ![t].result = "success"]
    /\ UNCHANGED <<current_detections, nextGen>>
    /\ UNCHANGED notCrowdVars

\* The endpoint's `except Exception`: HTTPException(500, "Update failed: ...").
RefreshError(t) ==
    /\ Active(t)
    /\ tasks[t].pc = "raised"
    /\ MayRun(t)
    /\ tasks' = [tasks EXCEPT ![t].status = "done", ![t].pc = "done",
                              ![t].detections = EmptyDict,
                              ![t].result = "error500"]
    /\ UNCHANGED <<current_detections, nextGen>>
    /\ UNCHANGED notCrowdVars

\* A reader handler starts and evaluates crowd_engine.current_detections for
\* the first time.
ReaderBegin(t) ==
    /\ tasks[t].kind \in ReaderKinds
    /\ tasks[t].status = "pending"
    /\ MayRun(t)
    /\ tasks' = [tasks EXCEPT ![t].status = "active",
                              ![t].pc = IF NumReads(tasks[t].kind) = 1
                                        THEN "respond" ELSE "read",
                              ![t].reads = <<current_detections.id>>]
    /\ UNCHANGED <<current_detections, nextGen>>
    /\ UNCHANGED notCrowdVars

\* The handler evaluates crowd_engine.current_detections again.
ReaderRead(t) ==
    /\ Active(t)
    /\ tasks[t].pc = "read"
    /\ MayRun(t)
    /\ LET rs == Append(tasks[t].reads, current_detections.id)
       IN  tasks' = [tasks EXCEPT ![t].reads = rs,
                                  ![t].pc = IF Len(rs) = NumReads(tasks[t].kind)
                                            THEN "respond" ELSE "read"]
    /\ UNCHANGED <<current_detections, nextGen>>
    /\ UNCHANGED notCrowdVars

\* The handler returns its response.
ReaderRespond(t) ==
    /\ Active(t)
    /\ tasks[t].kind \in ReaderKinds
    /\ tasks[t].pc = "respond"
    /\ MayRun(t)
    /\ tasks' = [tasks EXCEPT ![t].status = "done", ![t].pc = "done",
                              ![t].reads = <<>>, ![t].result = "success"]
    /\ UNCHANGED <<current_detections, nextGen>>
    /\ UNCHANGED notCrowdVars

\* crowd_engine = CrowdIntelligenceEngine(): __init__ generates the first dict.
InitCrowd ==
    /\ current_detections = [id |-> 0, entries |-> FullDict(0)]
    /\ nextGen = 1
    /\ tasks = [t \in TaskIds |-> NoTask]

NextCrowd ==
    \E t \in TaskIds :
        \/ \E kind \in TaskKinds : Arrive(t, kind)
        \/ RefreshBegin(t)
        \/ RefreshLocation(t)
        \/ RefreshLocationRaises(t)
        \/ RefreshPublish(t)
        \/ RefreshRespond(t)
        \/ RefreshError(t)
        \/ ReaderBegin(t)
        \/ ReaderRead(t)
        \/ ReaderRespond(t)

(***************************************************************************)
(* Strings: ids are Python strings; the operations the planners apply to   *)
(* them (lower, replace, split, `in`, float) work on their characters.     *)
(***************************************************************************)
\* The characters of the strings the model uses.
Chars(s) ==
    CASE s = "ram_ghat_main" -> <<"r", "a", "m", "_", "g", "h", "a", "t", "_", "m", "a", "i", "n">>
      [] s = "mahakal_temple" -> <<"m", "a", "h", "a", "k", "a", "l", "_", "t", "e", "m", "p", "l", "e">>
      [] s = "shipra_ghat_1" -> <<"s", "h", "i", "p", "r", "a", "_", "g", "h", "a", "t", "_", "1">>
      [] s = "Mahakal Temple" -> <<"M", "a", "h", "a", "k", "a", "l", " ", "T", "e", "m", "p", "l", "e">>
      [] s = "nowhere" -> <<"n", "o", "w", "h", "e", "r", "e">>
      [] s = "custom_x_y" -> <<"c", "u", "s", "t", "o", "m", "_", "x", "_", "y">>
      [] s = "custom_23.1830_75.7690" -> <<"c", "u", "s", "t", "o", "m", "_", "2", "3", ".", "1", "8", "3", "0", "_", "7", "5", ".", "7", "6", "9", "0">>
      [] s = "main_ghat" -> <<"m", "a", "i", "n", "_", "g", "h", "a", "t">>
      [] s = "transport_hub_central" -> <<"t", "r", "a", "n", "s", "p", "o", "r", "t", "_", "h", "u", "b", "_", "c", "e", "n", "t", "r", "a", "l">>
      [] s = "food_court_1" -> <<"f", "o", "o", "d", "_", "c", "o", "u", "r", "t", "_", "1">>
      [] s = "custom_" -> <<"c", "u", "s", "t", "o", "m", "_">>
      [] s = "Ram Ghat" -> <<"R", "a", "m", " ", "G", "h", "a", "t">>
      [] s = "ram ghat" -> <<"r", "a", "m", " ", "g", "h", "a", "t">>
      [] s = "Police Chowki" -> <<"P", "o", "l", "i", "c", "e", " ", "C", "h", "o", "w", "k", "i">>
      [] s = "City Hospital" -> <<"C", "i", "t", "y", " ", "H", "o", "s", "p", "i", "t", "a", "l">>
      [] s = "Bus Stand" -> <<"B", "u", "s", " ", "S", "t", "a", "n", "d">>
      [] s = "Nowhere" -> <<"N", "o", "w", "h", "e", "r", "e">>
      [] s = "police" -> <<"p", "o", "l", "i", "c", "e">>
      [] s = "hospital" -> <<"h", "o", "s", "p", "i", "t", "a", "l">>
      [] s = "public" -> <<"p", "u", "b", "l", "i", "c">>
      [] s = "VIP" -> <<"V", "I", "P">>
      [] s = "vip" -> <<"v", "i", "p">>
      [] s = "Divyangjan" -> <<"D", "i", "v", "y", "a", "n", "g", "j", "a", "n">>
      [] s = "divyangjan" -> <<"d", "i", "v", "y", "a", "n", "g", "j", "a", "n">>
      [] s = "elderly" -> <<"e", "l", "d", "e", "r", "l", "y">>
      [] s = "tourist" -> <<"t", "o", "u", "r", "i", "s", "t">>
      [] OTHER -> <<>>

\* str.lower() on one character (the upper-case letters of the ids used).
LowerChar(c) ==
    CASE c = "M" -> "m"
      [] c = "T" -> "t"
      [] c = "R" -> "r"
      [] c = "G" -> "g"
      [] c = "P" -> "p"
      [] c = "C" -> "c"
      [] c = "H" -> "h"
      [] c = "B" -> "b"
      [] c = "S" -> "s"
      [] c = "N" -> "n"
      [] c = "V" -> "v"
      [] c = "I" -> "i"
      [] c = "D" -> "d"
      [] OTHER   -> c

\* str.lower()
Lower(cs) == [i \in 1..Len(cs) |-> LowerChar(cs[i])]

\* start_location.lower().replace(" ", "_").replace("-", "_")
NormalizeKey(cs) ==
    [i \in 1..Len(cs) |->
        IF cs[i] = " " \/ cs[i] = "-" THEN "_" ELSE LowerChar(cs[i])]

\* s.startswith(p)
StartsWith(s, p) == Len(s) >= Len(p) /\ SubSeq(s, 1, Len(p)) = p

\* p in s (substring test)
IsSubstring(p, s) ==
    \E i \in 0..(Len(s) - Len(p)) : SubSeq(s, i + 1, i + Len(p)) = p

\* s.replace(p, ""), p not empty: every occurrence of p removed, left to right.
RECURSIVE RemoveAll(_, _)
RemoveAll(s, p) ==
    IF Len(s) < Len(p) THEN s
    ELSE IF StartsWith(s, p) THEN RemoveAll(SubSeq(s, Len(p) + 1, Len(s)), p)
    ELSE <<s[1]>> \o RemoveAll(Tail(s), p)

\* s.split(sep) for a one-character sep.
RECURSIVE SplitAcc(_, _, _)
SplitAcc(s, sep, cur) ==
    IF s = <<>> THEN <<cur>>
    ELSE IF s[1] = sep THEN <<cur>> \o SplitAcc(Tail(s), sep, <<>>)
    ELSE SplitAcc(Tail(s), sep, Append(cur, s[1]))

Split(s, sep) == SplitAcc(s, sep, <<>>)

Digits == {"0", "1", "2", "3", "4", "5", "6", "7", "8", "9"}

DigitVal(c) ==
    CASE c = "0" -> 0 [] c = "1" -> 1 [] c = "2" -> 2 [] c = "3" -> 3 [] c = "4" -> 4
      [] c = "5" -> 5 [] c = "6" -> 6 [] c = "7" -> 7 [] c = "8" -> 8 [] c = "9" -> 9
      [] OTHER -> 0

RECURSIVE DigitsValue(_)
DigitsValue(ds) ==
    IF ds = <<>> THEN 0 ELSE 10 * DigitsValue(SubSeq(ds, 1, Len(ds) - 1)) + DigitVal(ds[Len(ds)])

\* float(s) for the plain decimal literals the ids hold (digits with at most
\* one point); every other text of the model's ids makes float raise ValueError.
IsFloatText(cs) ==
    /\ \A i \in 1..Len(cs) : cs[i] \in Digits \cup {"."}
    /\ Cardinality({i \in 1..Len(cs) : cs[i] = "."}) <= 1
    /\ \E i \in 1..Len(cs) : cs[i] \in Digits

\* The value of float(s) in units of 0.0001 degree (the ids give 4 decimals).
FloatValue(cs) ==
    LET parts == Split(cs, ".")
        whole == parts[1]
        frac  == IF Len(parts) > 1 THEN parts[2] ELSE <<>>
        frac4 == [i \in 1..4 |-> IF i <= Len(frac) THEN frac[i] ELSE "0"]
    IN  DigitsValue(whole) * 10000 + DigitsValue(frac4)

(***************************************************************************)
(* Geography: coordinates in units of 0.0001 degree, distances in mm       *)
(***************************************************************************)
\* The coordinates the model uses: the 11 engine locations, in the order of
\* the locations dict, then the point of the id custom_23.1830_75.7690.
Points == <<<<231765, 757885>>, <<231828, 757681>>, <<231801, 757892>>, <<231789, 757901>>, <<231723, 757823>>, <<231856, 757934>>, <<231756, 757834>>, <<231745, 757856>>, <<231734, 757878>>, <<231767, 757845>>, <<231834, 757712>>, <<231830, 757690>>>>

\* _calculate_haversine_distance, tabulated over Points (millimetres, rounded).
HaversineTable == <<
    <<0, 2199786, 406647, 312998, 787264, 1129051, 530848, 370589, 352053, 409489, 1927650, 2120258>>,
    <<2199786, 0, 2177582, 2290224, 1862821, 2604721, 1756961, 2012891, 2268839, 1808410, 323817, 94645>>,
    <<406647, 2177582, 0, 162074, 1117914, 747212, 775809, 723301, 758627, 611348, 1876142, 2089818>>,
    <<312998, 2290224, 162074, 0, 1083663, 817811, 776985, 671541, 655207, 622513, 1995661, 2204451>>,
    <<787264, 1862821, 1117914, 1083663, 0, 1864006, 383786, 416701, 575383, 538469, 1676551, 1806630>>,
    <<1129051, 2604721, 747212, 817811, 1864006, 0, 1510392, 1469388, 1472405, 1344246, 2282322, 2510751>>,
    <<530848, 1756961, 775809, 776985, 383786, 1510392, 0, 256000, 512001, 166146, 1519022, 1686333>>,
    <<370589, 2012891, 723301, 671541, 416701, 1469388, 256000, 0, 256001, 269234, 1773707, 1942317>>,
    <<352053, 2268839, 758627, 655207, 575383, 1472405, 512001, 256001, 0, 498439, 2028724, 2198307>>,
    <<409489, 1808410, 611348, 622513, 538469, 1344246, 166146, 269234, 498439, 0, 1550254, 1732347>>,
    <<1927650, 323817, 1876142, 1995661, 1676551, 2282322, 1519022, 1773707, 2028724, 1550254, 0, 229232>>,
    <<2120258, 94645, 2089818, 2204451, 1806630, 2510751, 1686333, 1942317, 2198307, 1732347, 229232, 0>> >>

PointIndex(p) == CHOOSE i \in 1..Len(Points) : Points[i] = p

\* _calculate_haversine_distance(lat1, lng1, lat2, lng2) in millimetres.
Haversine(p, q) == HaversineTable[PointIndex(p)][PointIndex(q)]

(***************************************************************************)
(* AI routing engine: services/advanced_routing.py                         *)
(***************************************************************************)
\* Keys of AIRoutingEngine.locations, in insertion order.
EngineLocOrder == <<"ram_ghat_main", "mahakal_temple", "shipra_ghat_1", "shipra_ghat_2",
                    "transport_hub_central", "transport_hub_east",
                    "medical_center_primary", "food_court_main", "rest_area_families",
                    "info_center_main", "vip_reception">>

EngineLocs == {EngineLocOrder[i] : i \in 1..Len(EngineLocOrder)}

EngineLocIndex(id) == CHOOSE i \in 1..Len(EngineLocOrder) : EngineLocOrder[i] = id

EngineLocName(id) ==
    CASE id = "ram_ghat_main"          -> "Ram Ghat Main"
      [] id = "mahakal_temple"         -> "Mahakaleshwar Temple"
      [] id = "shipra_ghat_1"          -> "Shipra Ghat Alpha"
      [] id = "shipra_ghat_2"          -> "Shipra Ghat Beta"
      [] id = "transport_hub_central"  -> "Central Transport Hub"
      [] id = "transport_hub_east"     -> "East Transport Terminal"
      [] id = "medical_center_primary" -> "Primary Medical Center"
      [] id = "food_court_main"        -> "Main Food Court"
      [] id = "rest_area_families"     -> "Family Rest Complex"
      [] id = "info_center_main"       -> "Main Information Center"
      [] id = "vip_reception"          -> "VIP Reception Center"

\* self.locations[id]
EngineLocation(id) == [name |-> EngineLocName(id), point |-> Points[EngineLocIndex(id)]]

\* self.locations.get(id, self.locations[default])
LocationOrDefault(id, default) ==
    IF id \in EngineLocs THEN EngineLocation(id) ELSE EngineLocation(default)

\* _find_nearest_location: the first location at the least distance.
RECURSIVE NearestFrom(_, _, _, _)
NearestFrom(p, i, best, bestDist) ==
    IF i > Len(EngineLocOrder) THEN best
    ELSE LET d == Haversine(p, Points[i])
         IN  IF bestDist < 0 \/ d < bestDist
             THEN NearestFrom(p, i + 1, EngineLocOrder[i], d)
             ELSE NearestFrom(p, i + 1, best, bestDist)

FindNearestLocation(p) == NearestFrom(p, 1, "ram_ghat_main", -1)

\* get_multiple_routes, "Handle custom current location": the start id the
\* routes are generated for.
ResolveStart(start_id) ==
    LET cs == Chars(start_id)
    IN  IF ~StartsWith(cs, Chars("custom_")) THEN start_id
        ELSE LET coords == Split(RemoveAll(cs, Chars("custom_")), "_")
             IN  IF Len(coords) # 2 THEN start_id
                 ELSE IF IsFloatText(coords[1]) /\ IsFloatText(coords[2])
                      THEN FindNearestLocation(<<FloatValue(coords[1]), FloatValue(coords[2])>>)
                      ELSE "ram_ghat_main"

\* The route types get_multiple_routes generates, in order.
BaseRouteTypes == <<[route_type |-> "optimal", name |-> "AI-Optimized Route"],
                    [route_type |-> "fastest", name |-> "Fastest Route"],
                    [route_type |-> "safest", name |-> "Safest Route"]>>

AccessibleRouteType == [route_type |-> "accessible", name |-> "Accessible Route"]

\* user_profile.get('accessibility_needs'), user_profile possibly None.
NoProfile == [present |-> FALSE, accessibility_needs |-> FALSE]

\* `user_profile and (user_profile.get('accessibility_needs') or
\*  preferences.get('accessible_route'))`
AppendsAccessible(preferences, user_profile) ==
    user_profile.present /\ (user_profile.accessibility_needs \/ preferences.accessible_route)

RouteTypesFor(preferences, user_profile) ==
    IF AppendsAccessible(preferences, user_profile)
    THEN Append(BaseRouteTypes, AccessibleRouteType)
    ELSE BaseRouteTypes

\* distance *= 0.9 | 1.2 | 1.3 | 1.1, in tenths.
DistanceFactor10(route_type) ==
    CASE route_type = "fastest"    -> 9
      [] route_type = "safest"     -> 12
      [] route_type = "accessible" -> 13
      [] OTHER                     -> 11

\* duration = distance * 8 | 12 | 15 | 10 (minutes per km).
MinutesPerKm(route_type) ==
    CASE route_type = "fastest"    -> 8
      [] route_type = "safest"     -> 12
      [] route_type = "accessible" -> 15
      [] OTHER                     -> 10

MockCrowdLevel(route_type) ==
    CASE route_type = "fastest"    -> 75
      [] route_type = "safest"     -> 25
      [] route_type = "accessible" -> 30
      [] OTHER                     -> 35

MockSafetyScore(route_type) ==
    CASE route_type = "fastest"    -> 82
      [] route_type = "safest"     -> 98
      [] route_type = "accessible" -> 95
      [] OTHER                     -> 95

\* f"{distance:.2f} km": a distance in millimetres as hundredths of a km.
FormatKm(mm) == (mm + 5000) \div 10000

\* _generate_mock_route; conf is the value random.uniform(0.85, 0.95) returns,
\* in hundredths. Distances are millimetres, waypoint coordinates doubled so that
\* the midpoint stays integral. The fields instructions, health_benefits and
\* alternative_options are functions of the fields kept here.
MockRoute(start_id, end_id, route_config, user_profile, conf) ==
    LET start_loc == LocationOrDefault(start_id, "ram_ghat_main")
        end_loc   == LocationOrDefault(end_id, "mahakal_temple")
        rt        == route_config.route_type
        distance  == (Haversine(start_loc.point, end_loc.point) * DistanceFactor10(rt)) \div 10
        duration  == (distance * MinutesPerKm(rt)) \div 1000000
    IN  [id |-> "route_3",      \* f"route_{len(route_config) + 1}": route_config has 2 keys
         name |-> route_config.name,
         distance |-> FormatKm(distance),
         duration |-> duration,
         crowd_level |-> MockCrowdLevel(rt),
         safety_score |-> MockSafetyScore(rt),
         accessibility_score |-> IF rt = "accessible" THEN 90 ELSE 80,
         difficulty |-> IF rt \in {"accessible", "safest"} THEN "Easy" ELSE "Moderate",
         highlights |->
             <<"Real-time AI optimization", "Live crowd monitoring">>
             \o (IF rt = "accessible" \/ (user_profile.present /\ user_profile.accessibility_needs)
                 THEN <<"Wheelchair accessible", "Rest areas available">> ELSE <<>>)
             \o (IF rt = "safest"
                 THEN <<"Maximum safety protocols", "Emergency services coverage">> ELSE <<>>)
             \o (IF rt = "fastest" THEN <<"Shortest travel time", "Direct connection">> ELSE <<>>),
         warnings |-> IF MockCrowdLevel(rt) > 70 THEN <<"Higher crowd density expected">> ELSE <<>>,
         waypoints |->
             <<[name |-> start_loc.name, lat2 |-> 2 * start_loc.point[1], lng2 |-> 2 * start_loc.point[2]],
               [name |-> "Checkpoint", lat2 |-> start_loc.point[1] + end_loc.point[1],
                lng2 |-> start_loc.point[2] + end_loc.point[2]],
               [name |-> end_loc.name, lat2 |-> 2 * end_loc.point[1], lng2 |-> 2 * end_loc.point[2]]>>,
         ai_confidence |-> conf]

\* The sort key (r["ai_confidence"], -r["crowd_level"], r["safety_score"]).
SortKey(r) == <<r.ai_confidence, 0 - r.crowd_level, r.safety_score>>

\* Tuple comparison a > b of two sort keys.
KeyGreater(a, b) ==
    \/ a[1] > b[1]
    \/ a[1] = b[1] /\ a[2] > b[2]
    \/ a[1] = b[1] /\ a[2] = b[2] /\ a[3] > b[3]

\* list.sort(key=..., reverse=True): descending, stable (equal keys keep
\* their order).
RECURSIVE InsertDescending(_, _)
InsertDescending(sorted, r) ==
    IF sorted = <<>> THEN <<r>>
    ELSE IF KeyGreater(SortKey(r), SortKey(sorted[1]))
         THEN <<r>> \o sorted
         ELSE <<sorted[1]>> \o InsertDescending(Tail(sorted), r)

RECURSIVE SortDescending(_)
SortDescending(rs) ==
    IF rs = <<>> THEN <<>>
    ELSE InsertDescending(SortDescending(SubSeq(rs, 1, Len(rs) - 1)), rs[Len(rs)])

\* The order in which get_multiple_routes returns the routes it generated.
RankRoutes(rs) == SortDescending(rs)

\* routes[:4]
Top4(rs) == SubSeq(rs, 1, IF Len(rs) < 4 THEN Len(rs) ELSE 4)

\* AIRoutingEngine.get_multiple_routes; confs[i] is the ai_confidence drawn
\* for the i-th generated route.
GetMultipleRoutesResult(start_id, end_id, preferences, user_profile, confs) ==
    LET start    == ResolveStart(start_id)
        types    == RouteTypesFor(preferences, user_profile)
        routes   == [i \in 1..Len(types) |->
                        MockRoute(start, end_id, types[i], user_profile, confs[i])]
    IN  Top4(RankRoutes(routes))

(***************************************************************************)
(* Route endpoint: api/endpoints/routing.py                                *)
(***************************************************************************)
\* location_coords of _calculate_fallback_routes, in insertion order.
FallbackCoords ==
    <<[key |-> "main_ghat", point |-> <<231765, 757885>>, name |-> "Main Ghat - Ram Ghat"],
      [key |-> "mahakal_temple", point |-> <<231828, 757681>>, name |-> "Mahakaleshwar Temple"],
      [key |-> "transport_hub_central", point |-> <<231723, 757823>>, name |-> "Central Transport Hub"],
      [key |-> "shipra_ghat_1", point |-> <<231801, 757892>>, name |-> "Shipra Ghat 1"],
      [key |-> "food_court_1", point |-> <<231745, 757856>>, name |-> "Main Food Court"]>>

\* The loop `for key, coord in location_coords.items()`: the index of the last
\* key with `key in k or k in key`, 0 when no key matches.
RECURSIVE LastMatch(_, _, _)
LastMatch(k, i, found) ==
    IF i > Len(FallbackCoords) THEN found
    ELSE LET key == Chars(FallbackCoords[i].key)
         IN  LastMatch(k, i + 1, IF IsSubstring(key, k) \/ IsSubstring(k, key) THEN i ELSE found)

FallbackMatch(location) == LastMatch(NormalizeKey(Chars(location)), 1, 0)

\* start_coord, with "Default coordinates if not found".
FallbackStartCoord(location) ==
    LET m == FallbackMatch(location)
    IN  IF m # 0 THEN [point |-> FallbackCoords[m].point, name |-> FallbackCoords[m].name]
        ELSE [point |-> <<231765, 757885>>, name |-> "Starting Point"]

FallbackEndCoord(location) ==
    LET m == FallbackMatch(location)
    IN  IF m # 0 THEN [point |-> FallbackCoords[m].point, name |-> FallbackCoords[m].name]
        ELSE [point |-> <<231828, 757681>>, name |-> "Destination"]

Waypoint(name, lat2, lng2) == [name |-> name, lat2 |-> lat2, lng2 |-> lng2]

\* The routes list _calculate_fallback_routes builds (distances in millimetres
\* before formatting, duration as <<minutes, seconds>>, waypoint coordinates
\* doubled; 0.001 degree = 20).
FallbackRoutes(req) ==
    LET s    == FallbackStartCoord(req.start_location)
        e    == FallbackEndCoord(req.end_location)
        base == Haversine(s.point, e.point)
        optimal_distance == (base * 11) \div 10
        fastest_distance == (base * 95) \div 100
        safest_distance  == (base * 13) \div 10
        sw == Waypoint(s.name, 2 * s.point[1], 2 * s.point[2])
        ew == Waypoint(e.name, 2 * e.point[1], 2 * e.point[2])
        optimal ==
            [id |-> "route_1", name |-> "AI-Optimized Route", route_type |-> "optimal",
             distance |-> FormatKm(optimal_distance),
             duration |-> <<(optimal_distance * 12) \div 1000000,
                           ((optimal_distance * 12 * 60) \div 1000000) % 60>>,
             duration_seconds |-> (optimal_distance * 12 * 60) \div 1000000,
             safety_score |-> 95, accessibility_score |-> 88, crowd_level |-> 35,
             difficulty |-> "Easy", warnings |-> <<>>,
             waypoints |-> <<sw, Waypoint("Smart Checkpoint", s.point[1] + e.point[1],
                                          s.point[2] + e.point[2]), ew>>]
        fastest ==
            [id |-> "route_2", name |-> "Fastest Route", route_type |-> "fastest",
             distance |-> FormatKm(fastest_distance),
             duration |-> <<(fastest_distance * 8) \div 1000000,
                           ((fastest_distance * 8 * 60) \div 1000000) % 60>>,
             duration_seconds |-> (fastest_distance * 8 * 60) \div 1000000,
             safety_score |-> 82, accessibility_score |-> 75, crowd_level |-> 78,
             difficulty |-> "Moderate",
             warnings |-> <<"Higher crowd density expected", "Limited accessibility features">>,
             waypoints |-> <<sw, ew>>]
        safest ==
            [id |-> "route_3", name |-> "Safest Route", route_type |-> "safest",
             distance |-> FormatKm(safest_distance),
             duration |-> <<(safest_distance * 10) \div 1000000,
                           ((safest_distance * 10 * 60) \div 1000000) % 60>>,
             duration_seconds |-> (safest_distance * 10 * 60) \div 1000000,
             safety_score |-> 98, accessibility_score |-> 95, crowd_level |-> 25,
             difficulty |-> "Easy", warnings |-> <<>>,
             waypoints |-> <<sw, Waypoint("Safety Checkpoint", 2 * s.point[1] + 20, 2 * s.point[2] + 20),
                             Waypoint("Accessible Path", 2 * e.point[1] - 20, 2 * e.point[2] - 20),
                             ew>>]
    IN  <<optimal>>
        \o (IF req.route_type \in {"fastest", "optimal"} THEN <<fastest>> ELSE <<>>)
        \o (IF req.route_type \in {"safest", "optimal"} \/ req.accessible_route
            THEN <<safest>> ELSE <<>>)

\* The response of _calculate_fallback_routes.
FallbackResponse(req) ==
    [status |-> 200, routes |-> FallbackRoutes(req),
     algorithm |-> "Enhanced Fallback Routing with Haversine Distance Calculation"]

\* The branch as it would end if the formatting loop could read the routes it is given.
AiBranchOutcomeFormatted(routes) ==
    IF routes = <<>> THEN "HTTPException404" ELSE "returned"

\* What the `if AI_ROUTING_AVAILABLE:` branch of calculate_route ends in, given
\* the list get_multiple_routes returned: an empty list raises HTTPException
\* (404); otherwise the formatting loop evaluates route.route_type on a dict
\* and raises AttributeError.
AiBranchOutcome(routes) ==
    IF routes = <<>> THEN "HTTPException404" ELSE "AttributeError"

\* The dictionary the `if AI_ROUTING_AVAILABLE:` branch returns when nothing
\* is raised: `"routes": routes`, the list of the engine.
AiResponse(routes) ==
    [status |-> 200, routes |-> routes,
     algorithm |-> "AI-Powered Multi-Modal Routing with Machine Learning"]

\* calculate_route: whatever the branch raises is caught by `except Exception`
\* (HTTPException is an Exception), whose handler returns the fallback
\* response.
CalculateRouteResponse(req, available, confs) ==
    IF available
    THEN LET preferences == [route_type |-> req.route_type,
                             accessible_route |-> req.accessible_route]
             user_profile == [present |-> TRUE,
                              accessibility_needs |->
                                  req.accessible_route \/ req.user_type \in {"elderly", "divyangjan"}]
             routes == GetMultipleRoutesResult(req.start_location, req.end_location,
                                               preferences, user_profile, confs)
             outcome == AiBranchOutcome(routes)
         IN  [ai |-> outcome,
              response |-> IF outcome = "returned" THEN AiResponse(routes)
                           ELSE FallbackResponse(req)]
    ELSE [ai |-> "skipped", response |-> FallbackResponse(req)]

\* get_smart_path: the legacy response built from the first route.
LegacyResponse(result) ==
    IF result.routes # <<>>
    THEN LET best_route == result.routes[1]
         IN  [path |-> best_route.waypoints, distance |-> best_route.distance,
              duration |-> best_route.duration,
              safety_score |-> best_route.safety_score,
              crowd_level |-> best_route.crowd_level]
    ELSE [error |-> "No route found"]

(***************************************************************************)
(* Route planning requests                                                 *)
(***************************************************************************)
StartIds == {"ram_ghat_main", "shipra_ghat_1", "Mahakal Temple", "nowhere",
             "custom_x_y", "custom_23.1830_75.7690"}

EndIds == {"mahakal_temple", "shipra_ghat_1", "nowhere"}

RouteTypeValues == {"optimal", "fastest", "safest", "scenic"}

UserTypes == {"general", "elderly"}

Profiles == {NoProfile} \cup {[present |-> TRUE, accessibility_needs |-> b] : b \in BOOLEAN}

\* Values random.uniform(0.85, 0.95) may return, in hundredths: the two ends
\* of the range.
ConfLevels == {85, 95}

\* One draw per route of a call; the draws of the third and fourth route repeat
\* those of the first and second.
ConfDraws == {c \in [1..4 -> ConfLevels] : c[3] = c[1] /\ c[4] = c[2]}

NoCall == [op |-> "idle", phase |-> "idle", in |-> <<>>, out |-> <<>>, out2 |-> <<>>,
           ai |-> "none"]

\* A caller invokes ai_routing_engine.get_multiple_routes.
EngineCall(start_id, end_id, accessible_route, user_profile, confs) ==
    /\ call.op = "idle"
    /\ AI_ROUTING_AVAILABLE
    /\ call' = [NoCall EXCEPT
                  !.op = "engine", !.phase = "returned",
                  !.in = [start_id |-> start_id, end_id |-> end_id,
                          accessible_route |-> accessible_route,
                          user_profile |-> user_profile],
                  !.out = GetMultipleRoutesResult(start_id, end_id,
                              [accessible_route |-> accessible_route], user_profile, confs)]
    /\ UNCHANGED AI_ROUTING_AVAILABLE
    /\ UNCHANGED notRouteVars

\* The caller repeats the call with the same arguments.
EngineCallAgain(confs) ==
    /\ call.op = "engine"
    /\ call.phase = "returned"
    /\ call' = [call EXCEPT
                  !.phase = "returned_twice",
                  !.out2 = GetMultipleRoutesResult(call.in.start_id, call.in.end_id,
                               [accessible_route |-> call.in.accessible_route],
                               call.in.user_profile, confs)]
    /\ UNCHANGED AI_ROUTING_AVAILABLE
    /\ UNCHANGED notRouteVars

\* POST /routes/calculate
CalculateRoute(req, confs) ==
    /\ call.op = "idle"
    /\ LET r == CalculateRouteResponse(req, AI_ROUTING_AVAILABLE, confs)
       IN  call' = [NoCall EXCEPT !.op = "calculate", !.phase = "returned",
                                  !.in = req, !.out = r.response, !.ai = r.ai]
    /\ UNCHANGED AI_ROUTING_AVAILABLE
    /\ UNCHANGED notRouteVars

\* GET /routes/smart-path/
GetSmartPath(start, end, user_type, confs) ==
    /\ call.op = "idle"
    /\ LET req == [start_location |-> start, end_location |-> end,
                   route_type |-> "optimal", accessible_route |-> user_type \in {"Divyangjan", "elderly"},
                   user_type |-> "general"]
           r   == CalculateRouteResponse(req, AI_ROUTING_AVAILABLE, confs)
       IN  call' = [NoCall EXCEPT !.op = "smart_path", !.phase = "returned",
                                  !.in = req, !.out = LegacyResponse(r.response), !.ai = r.ai]
    /\ UNCHANGED AI_ROUTING_AVAILABLE
    /\ UNCHANGED notRouteVars

\* The names bound in the module namespace of routing.py once it is imported:
\* the import of the engine binds ai_routing_engine only when it succeeds.
GlobalNames(ai_available) ==
    {"AI_ROUTING_AVAILABLE", "router", "random", "datetime"}
    \cup (IF ai_available THEN {"ai_routing_engine"} ELSE {})

\* The key under which an informational endpoint returns its data.
InfoKey(endpoint) ==
    CASE endpoint = "weather"    -> "current_weather"
      [] endpoint = "analytics"  -> "network_stats"
      [] endpoint = "crowd_data" -> "crowd_data"

\* get_weather_conditions, get_routing_analytics, get_crowd_data: each starts
\* with `if ADVANCED_ROUTING_AVAILABLE:`; reading a name that is not bound
\* raises NameError, which the handlers do not catch, and the server answers
\* 500. Both branches below the test return the endpoint's key.
InfoEndpointResponse(endpoint, ai_available) ==
    IF "ADVANCED_ROUTING_AVAILABLE" \notin GlobalNames(ai_available)
    THEN [status_code |-> 500, error |-> "NameError", keys |-> {}]
    ELSE [status_code |-> 200, error |-> "none", keys |-> {InfoKey(endpoint)}]

\* GET /routes/weather, /routes/analytics, /routes/crowd-data
InfoEndpoint(endpoint) ==
    /\ call.op = "idle"
    /\ call' = [NoCall EXCEPT !.op = endpoint, !.phase = "returned",
                               !.out = InfoEndpointResponse(endpoint, AI_ROUTING_AVAILABLE)]
    /\ UNCHANGED AI_ROUTING_AVAILABLE
    /\ UNCHANGED notRouteVars

\* The result has been handed to the caller; the planner retains nothing.
ReturnToCaller ==
    /\ call.op # "idle"
    /\ call' = NoCall
    /\ UNCHANGED AI_ROUTING_AVAILABLE
    /\ UNCHANGED notRouteVars

IdleRoutes ==
    /\ AI_ROUTING_AVAILABLE = TRUE
    /\ call = NoCall

\* routing.py imports the engine at start-up; the import fails or succeeds.
InitRoutes ==
    /\ AI_ROUTING_AVAILABLE \in BOOLEAN
    /\ call = NoCall

NextRoutes ==
    \/ \E s \in StartIds, e \in EndIds, a \in BOOLEAN, p \in Profiles, c \in ConfDraws :
          EngineCall(s, e, a, p, c)
    \/ \E c \in ConfDraws : EngineCallAgain(c)
    \/ \E s \in StartIds, e \in EndIds, rt \in RouteTypeValues, a \in BOOLEAN,
          u \in UserTypes, c \in ConfDraws :
          CalculateRoute([start_location |-> s, end_location |-> e, route_type |-> rt,
                          accessible_route |-> a, user_type |-> u], c)
    \/ \E s \in StartIds, e \in EndIds, u \in {"public", "elderly"}, c \in ConfDraws :
          GetSmartPath(s, e, u, c)
    \/ \E endpoint \in {"weather", "analytics", "crowd_data"} : InfoEndpoint(endpoint)
    \/ ReturnToCaller

(***************************************************************************)
(* Smart path: services/routing_service.py                                 *)
(***************************************************************************)
\* The walk network G of the scenario A..F: nodes and undirected edges with
\* their "length".
GNodes == {"A", "B", "C", "D", "E", "F"}

GEdges ==
    {[ends |-> {"A", "B"}, length |-> 1], [ends |-> {"B", "C"}, length |-> 2],
     [ends |-> {"C", "D"}, length |-> 1], [ends |-> {"D", "E"}, length |-> 3],
     [ends |-> {"A", "F"}, length |-> 5], [ends |-> {"F", "E"}, length |-> 2],
     [ends |-> {"B", "F"}, length |-> 2]}

\* The POIs load_osm_pois may return; `node` is get_nearest_node(lat, lon).
PoiPool ==
    {[name |-> "Ram Ghat", category |-> "ghats", node |-> "A"],
     [name |-> "Police Chowki", category |-> "safe_zones", node |-> "C"],
     [name |-> "City Hospital", category |-> "safe_zones", node |-> "D"],
     [name |-> "Bus Stand", category |-> "transport_hubs", node |-> "E"]}

\* get_location_by_name: the locations whose lower-cased name equals the
\* lower-cased argument (names are unique in the pool).
GetLocationByName(locations, name) ==
    {loc \in locations : Lower(Chars(loc.name)) = Lower(Chars(name))}

\* The module-level loop that fills unsafe_nodes and steep_nodes.
NodesNamed(locations, word) ==
    {loc.node : loc \in {l \in locations : IsSubstring(Chars(word), Lower(Chars(l.name)))}}

\* removed_nodes if the branches compared user_type as it was passed.
RemovedNodesCaseSensitive(user_type, unsafe, steep) ==
    IF user_type \in {"divyangjan", "elderly"} THEN unsafe \cup steep ELSE unsafe

\* removed_nodes by user_type.
RemovedNodes(user_type, unsafe, steep) ==
    IF user_type = "public" THEN unsafe
    ELSE IF Lower(Chars(user_type)) = Chars("vip") THEN unsafe
    ELSE IF Lower(Chars(user_type)) \in {Chars("divyangjan"), Chars("elderly")}
         THEN unsafe \cup steep
    ELSE unsafe

Neighbours(n, keep) ==
    {m \in keep : \E ed \in GEdges : ed.ends = {n, m} /\ n # m}

EdgeLength(u, v) == (CHOOSE ed \in GEdges : ed.ends = {u, v}).length

RECURSIVE PathLength(_)
PathLength(p) ==
    IF Len(p) <= 1 THEN 0 ELSE EdgeLength(p[1], p[2]) + PathLength(Tail(p))

\* All simple paths of G_smart that extend p to the node `to`.
RECURSIVE PathsFrom(_, _, _)
PathsFrom(keep, p, to) ==
    IF p[Len(p)] = to THEN {p}
    ELSE UNION {PathsFrom(keep, Append(p, m), to) :
                   m \in Neighbours(p[Len(p)], keep) \ {p[i] : i \in 1..Len(p)}}

\* nx.shortest_path called without weight="length": the paths of fewest edges.
ShortestPathsByHops(removed, start_node, end_node) ==
    LET keep == GNodes \ removed
    IN  IF start_node \notin keep \/ end_node \notin keep THEN {}
        ELSE LET all == PathsFrom(keep, <<start_node>>, end_node)
             IN  {p \in all : \A q \in all : Len(p) <= Len(q)}

\* nx.shortest_path(G_smart, start_node, end_node, weight="length"): the
\* minimum-length paths; the empty set when it raises (NodeNotFound for a
\* removed endpoint, NetworkXNoPath otherwise).
ShortestPaths(removed, start_node, end_node) ==
    LET keep == GNodes \ removed
    IN  IF start_node \notin keep \/ end_node \notin keep THEN {}
        ELSE LET all == PathsFrom(keep, <<start_node>>, end_node)
             IN  {p \in all : \A q \in all : PathLength(p) <= PathLength(q)}

NoSmart == [phase |-> "idle", in |-> <<>>, out |-> <<>>]

SmartReturn(start, end, user_type, out) ==
    /\ smart' = [phase |-> "returned",
                 in |-> [start |-> start, end |-> end, user_type |-> user_type],
                 out |-> out]
    /\ UNCHANGED <<ALL_LOCATIONS, unsafe_nodes, steep_nodes>>
    /\ UNCHANGED notSmartVars

\* compute_smart_path returns {"error": "Start location '...' not found."}
\* (or the same for the end location).
ComputeSmartPathNotFound(start, end, user_type) ==
    /\ smart.phase = "idle"
    /\ \/ GetLocationByName(ALL_LOCATIONS, start) = {}
       \/ GetLocationByName(ALL_LOCATIONS, end) = {}
    /\ SmartReturn(start, end, user_type,
                   IF GetLocationByName(ALL_LOCATIONS, start) = {}
                   THEN [error |-> <<"Start location", start, "not found.">>]
                   ELSE [error |-> <<"End location", end, "not found.">>])

\* compute_smart_path: the try branch, a shortest path exists.
ComputeSmartPathFound(start, end, user_type) ==
    /\ smart.phase = "idle"
    /\ GetLocationByName(ALL_LOCATIONS, start) # {}
    /\ GetLocationByName(ALL_LOCATIONS, end) # {}
    /\ LET start_node == (CHOOSE l \in GetLocationByName(ALL_LOCATIONS, start) : TRUE).node
           end_node   == (CHOOSE l \in GetLocationByName(ALL_LOCATIONS, end) : TRUE).node
           removed_nodes == RemovedNodes(user_type, unsafe_nodes, steep_nodes)
       IN  \E path_nodes \in ShortestPaths(removed_nodes, start_node, end_node) :
              SmartReturn(start, end, user_type,
                          [start |-> start_node, end |-> end_node, user_type |-> user_type,
                           path |-> path_nodes, total_distance_m |-> PathLength(path_nodes),
                           removed_nodes |-> removed_nodes])

\* compute_smart_path: the except branch; "path": None is the empty sequence.
ComputeSmartPathNoPath(start, end, user_type) ==
    /\ smart.phase = "idle"
    /\ GetLocationByName(ALL_LOCATIONS, start) # {}
    /\ GetLocationByName(ALL_LOCATIONS, end) # {}
    /\ LET start_node == (CHOOSE l \in GetLocationByName(ALL_LOCATIONS, start) : TRUE).node
           end_node   == (CHOOSE l \in GetLocationByName(ALL_LOCATIONS, end) : TRUE).node
           removed_nodes == RemovedNodes(user_type, unsafe_nodes, steep_nodes)
       IN  /\ ShortestPaths(removed_nodes, start_node, end_node) = {}
           /\ SmartReturn(start, end, user_type,
                          [start |-> start_node, end |-> end_node, user_type |-> user_type,
                           path |-> <<>>, message |-> "No safe path available",
                           removed_nodes |-> removed_nodes])

\* The result has been returned; the next call may start.
SmartDone ==
    /\ smart.phase = "returned"
    /\ smart' = NoSmart
    /\ UNCHANGED <<ALL_LOCATIONS, unsafe_nodes, steep_nodes>>
    /\ UNCHANGED notSmartVars

SmartNames == {"Ram Ghat", "ram ghat", "Police Chowki", "City Hospital", "Bus Stand", "Nowhere"}

SmartUserTypes == {"public", "VIP", "Divyangjan", "elderly", "tourist"}

IdleSmart ==
    /\ ALL_LOCATIONS = PoiPool
    /\ unsafe_nodes = NodesNamed(PoiPool, "police")
    /\ steep_nodes = NodesNamed(PoiPool, "hospital")
    /\ smart = NoSmart

\* Module import: the POIs are loaded and the unsafe and steep nodes derived.
InitSmart ==
    /\ ALL_LOCATIONS \in SUBSET PoiPool
    /\ unsafe_nodes = NodesNamed(ALL_LOCATIONS, "police")
    /\ steep_nodes = NodesNamed(ALL_LOCATIONS, "hospital")
    /\ smart = NoSmart

NextSmart ==
    \/ \E s \in SmartNames, e \in SmartNames, u \in SmartUserTypes :
          ComputeSmartPathNotFound(s, e, u)
    \/ \E s \in SmartNames, e \in SmartNames, u \in SmartUserTypes :
          ComputeSmartPathFound(s, e, u)
    \/ \E s \in SmartNames, e \in SmartNames, u \in SmartUserTypes :
          ComputeSmartPathNoPath(s, e, u)
    \/ SmartDone

(***************************************************************************)
(* Accessibility optimizer: services/advanced_routing.py                   *)
(***************************************************************************)
\* `if segment.width < 2.0`, in decimetres.
WheelchairMinWidth == 20

\* `if segment.elevation_gain > 5.0`, in decimetres.
SteepElevationGain == 50

\* `if route.total_distance > 2.0`, in hundredths of a km.
LongDistance == 200

\* The route segments of the inputs: width and elevation_gain in decimetres.
SegmentKinds ==
    {[width |-> 30, elevation_gain |-> 0], [width |-> 15, elevation_gain |-> 0],
     [width |-> 30, elevation_gain |-> 60]}

RouteOptions ==
    {[segments |-> sg, total_distance |-> d, rest_areas |-> r] :
        sg \in {<<a>> : a \in SegmentKinds} \cup {<<a, b>> : a, b \in SegmentKinds},
        d \in {150, 250}, r \in {0, 1}}

Min(a, b) == IF a < b THEN a ELSE b

Max(a, b) == IF a > b THEN a ELSE b

\* wheelchair_penalty accumulated over route.segments, in hundredths.
RECURSIVE WheelchairPenalty(_)
WheelchairPenalty(segments) ==
    IF segments = <<>> THEN 0
    ELSE (IF Head(segments).width < WheelchairMinWidth THEN 10 ELSE 0)
         + (IF Head(segments).elevation_gain > SteepElevationGain THEN 15 ELSE 0)
         + WheelchairPenalty(Tail(segments))

\* _calculate_accessibility_score, in hundredths.
CalculateAccessibilityScore(route, user_needs) ==
    LET afterWheelchair ==
            IF user_needs.wheelchair_access
            THEN 80 - Min(WheelchairPenalty(route.segments), 40)
            ELSE 80
        afterElderly ==
            IF user_needs.elderly_friendly
            THEN afterWheelchair
                 - (IF route.total_distance > LongDistance THEN 10 ELSE 0)
                 + Min(route.rest_areas * 5, 20)
            ELSE afterWheelchair
    IN  Max(10, afterElderly)

\* list.sort(key=score, reverse=True): stable, descending.
RECURSIVE InsertByScore(_, _)
InsertByScore(r, sorted) ==
    IF sorted = <<>> THEN <<r>>
    ELSE IF r.accessibility_score > Head(sorted).accessibility_score
         THEN <<r>> \o sorted
         ELSE <<Head(sorted)>> \o InsertByScore(r, Tail(sorted))

RECURSIVE SortByScore(_)
SortByScore(rs) ==
    IF rs = <<>> THEN <<>>
    ELSE InsertByScore(rs[Len(rs)], SortByScore(SubSeq(rs, 1, Len(rs) - 1)))

\* optimize_for_accessibility: every route is scored and returned.
OptimizeForAccessibilityResult(route_options, user_needs) ==
    SortByScore([i \in 1..Len(route_options) |->
                   [segments |-> route_options[i].segments,
                    total_distance |-> route_options[i].total_distance,
                    rest_areas |-> route_options[i].rest_areas,
                    accessibility_score |->
                        CalculateAccessibilityScore(route_options[i], user_needs)]])

NoAccess == [phase |-> "idle", route_options |-> <<>>, user_needs |-> <<>>, out |-> <<>>]

OptimizeForAccessibility(route_options, user_needs) ==
    /\ access.phase = "idle"
    /\ access' = [phase |-> "returned", route_options |-> route_options,
                  user_needs |-> user_needs,
                  out |-> OptimizeForAccessibilityResult(route_options, user_needs)]
    /\ UNCHANGED notAccessVars

AccessDone ==
    /\ access.phase = "returned"
    /\ access' = NoAccess
    /\ UNCHANGED notAccessVars

InitAccess == access = NoAccess

NextAccess ==
    \/ \E a, b \in RouteOptions,
          w \in BOOLEAN, el \in BOOLEAN :
          OptimizeForAccessibility(<<a, b>>, [wheelchair_access |-> w, elderly_friendly |-> el])
    \/ \E a \in RouteOptions, w \in BOOLEAN, el \in BOOLEAN :
          OptimizeForAccessibility(<<a>>, [wheelchair_access |-> w, elderly_friendly |-> el])
    \/ AccessDone

(***************************************************************************)
(* Crowd detections and alerts: services/crowd_intelligence.py and         *)
(* api/endpoints/alerts.py. Densities are in units of 0.0001, thresholds   *)
(* and movement samples in hundredths, multipliers and flow rates in       *)
(* tenths, response times in tenths of a minute, priority scores in units  *)
(* of 0.00001.                                                             *)
(***************************************************************************)
\* _initialize_safety_thresholds.
SafetyThresholdTable(location_type) ==
    CASE location_type = "ghat"      -> [low |-> 60, medium |-> 75, high |-> 85, critical |-> 95]
      [] location_type = "temple"    -> [low |-> 70, medium |-> 80, high |-> 90, critical |-> 98]
      [] location_type = "transport" -> [low |-> 50, medium |-> 70, high |-> 85, critical |-> 95]
      [] location_type = "parking"   -> [low |-> 60, medium |-> 75, high |-> 90, critical |-> 98]
      [] location_type = "food"      -> [low |-> 65, medium |-> 80, high |-> 90, critical |-> 95]
      [] location_type = "medical"   -> [low |-> 30, medium |-> 50, high |-> 70, critical |-> 85]

ThresholdTypes == {"ghat", "temple", "transport", "parking", "food", "medical"}

\* self.safety_thresholds.get(location_type, self.safety_thresholds["ghat"])
SafetyThresholds(location_type) ==
    SafetyThresholdTable(IF location_type \in ThresholdTypes THEN location_type ELSE "ghat")

\* locations_data
LocationsData(loc_id) ==
    CASE loc_id = "main_ghat" ->
           [base_crowd |-> 3200, capacity |-> 5000, flow_rate |-> 180, location_type |-> "ghat"]
      [] loc_id = "mahakal_temple" ->
           [base_crowd |-> 5500, capacity |-> 8000, flow_rate |-> 220, location_type |-> "temple"]
      [] loc_id = "shipra_ghat_1" ->
           [base_crowd |-> 1800, capacity |-> 3000, flow_rate |-> 120, location_type |-> "ghat"]
      [] loc_id = "transport_hub_central" ->
           [base_crowd |-> 800, capacity |-> 2000, flow_rate |-> 150, location_type |-> "transport"]
      [] loc_id = "food_court_1" ->
           [base_crowd |-> 450, capacity |-> 800, flow_rate |-> 80, location_type |-> "food"]

\* datetime.now().hour
Hours == 0..23

\* _get_time_based_multiplier, in tenths.
GetTimeBasedMultiplier(location_type, hour) ==
    CASE location_type = "ghat" ->
           IF 4 <= hour /\ hour <= 7 THEN 18
           ELSE IF 17 <= hour /\ hour <= 20 THEN 16
           ELSE IF 8 <= hour /\ hour <= 16 THEN 10
           ELSE 4
      [] location_type = "temple" ->
           IF (5 <= hour /\ hour <= 8) \/ (17 <= hour /\ hour <= 20) THEN 15
           ELSE IF 9 <= hour /\ hour <= 16 THEN 12
           ELSE 8
      [] location_type = "transport" ->
           IF 6 <= hour /\ hour <= 22 THEN 12 ELSE 6
      [] location_type = "food" ->
           IF (7 <= hour /\ hour <= 9) \/ (12 <= hour /\ hour <= 14)
              \/ (19 <= hour /\ hour <= 21) THEN 14
           ELSE 8
      [] OTHER -> 10

\* current_crowd / capacity, without the clamp.
DensityLevelUnclamped(current_crowd, capacity) == (current_crowd * 10000) \div capacity

\* min(current_crowd / data["capacity"], 1.0): every quotient the locations
\* produce is a whole number of ten-thousandths.
DensityLevel(current_crowd, capacity) == Min((current_crowd * 10000) \div capacity, 10000)

\* The keys of movement_patterns, in the order of the dict.
MovementKeys == <<"stationary", "slow_moving", "fast_moving", "entering", "exiting">>

\* The five random.uniform draws of one location: the lower ends, the upper
\* ends and two mixed draws, one of which sums to 1.00 before normalisation.
\* One draw serves every location of a generation.
MovementSamples ==
    {<<30, 20, 10, 5, 5>>, <<60, 40, 30, 15, 15>>, <<45, 25, 15, 5, 10>>, <<60, 20, 30, 5, 15>>}

RECURSIVE SumSeq(_)
SumSeq(s) == IF s = <<>> THEN 0 ELSE Head(s) + SumSeq(Tail(s))

\* The samples as drawn, as fractions <<numerator, denominator>>.
NormalizeMovementOmitted(samples) == [k \in 1..Len(samples) |-> <<samples[k], 100>>]

\* total = sum(movement_patterns.values()); {k: v/total}: each fraction is kept
\* as the pair <<v, total>>.
NormalizeMovement(samples) ==
    LET total == SumSeq(samples)
    IN  [k \in 1..Len(samples) |-> <<samples[k], total>>]

\* The location-specific messages alone, without the band messages.
LocationSafetyAlertsSpecificOnly(location_id, density, location_type) ==
    IF location_type = "ghat" /\ density > 8000
    THEN <<"Slippery conditions near water - exercise caution">>
    ELSE IF location_type = "temple" /\ density > 8500
    THEN <<"Queue management system activated">>
    ELSE IF location_type = "transport" /\ density > 7000
    THEN <<"Additional transport services deployed">>
    ELSE <<>>

\* _generate_safety_alerts: the messages of one location.
LocationSafetyAlerts(location_id, density, location_type) ==
    LET thresholds == SafetyThresholds(location_type)
        band == IF density >= thresholds.critical * 100
                THEN <<"CRITICAL: Extremely high crowd density",
                       "Immediate crowd control measures required",
                       "Emergency evacuation routes activated">>
                ELSE IF density >= thresholds.high * 100
                THEN <<"HIGH: Very crowded conditions",
                       "Entry restrictions may be implemented",
                       "Alternative routes recommended">>
                ELSE IF density >= thresholds.medium * 100
                THEN <<"MEDIUM: Moderate crowd levels",
                       "Monitor for further increases",
                       "Prepare crowd management protocols">>
                ELSE <<>>
        specific == IF location_type = "ghat" /\ density > 8000
                    THEN <<"Slippery conditions near water - exercise caution">>
                    ELSE IF location_type = "temple" /\ density > 8500
                    THEN <<"Queue management system activated">>
                    ELSE IF location_type = "transport" /\ density > 7000
                    THEN <<"Additional transport services deployed">>
                    ELSE <<>>
    IN  band \o specific

\* One iteration of the loop of _generate_realistic_crowd_data.
CrowdDetection(loc_id, hour, samples) ==
    LET data == LocationsData(loc_id)
        crowd_multiplier == GetTimeBasedMultiplier(data.location_type, hour)
        current_crowd == (data.base_crowd * crowd_multiplier) \div 10
        density == DensityLevel(current_crowd, data.capacity)
    IN  [location_id |-> loc_id,
         timestamp |-> hour,
         crowd_count |-> current_crowd,
         density_level |-> density,
         flow_rate |-> data.flow_rate * crowd_multiplier,
         movement_patterns |-> NormalizeMovement(samples),
         safety_alerts |-> LocationSafetyAlerts(loc_id, density, data.location_type)]

\* _generate_realistic_crowd_data
GenerateRealisticCrowdData(hour, samples) ==
    [l \in Locs |-> CrowdDetection(l, hour, samples)]

\* The characters of the alert messages and of the severity keywords.
MessageChars(s) ==
    CASE s = "CRITICAL: Extremely high crowd density" -> <<"C", "R", "I", "T", "I", "C", "A", "L", ":", " ", "E", "x", "t", "r", "e", "m", "e", "l", "y", " ", "h", "i", "g", "h", " ", "c", "r", "o", "w", "d", " ", "d", "e", "n", "s", "i", "t", "y">>
      [] s = "Immediate crowd control measures required" -> <<"I", "m", "m", "e", "d", "i", "a", "t", "e", " ", "c", "r", "o", "w", "d", " ", "c", "o", "n", "t", "r", "o", "l", " ", "m", "e", "a", "s", "u", "r", "e", "s", " ", "r", "e", "q", "u", "i", "r", "e", "d">>
      [] s = "Emergency evacuation routes activated" -> <<"E", "m", "e", "r", "g", "e", "n", "c", "y", " ", "e", "v", "a", "c", "u", "a", "t", "i", "o", "n", " ", "r", "o", "u", "t", "e", "s", " ", "a", "c", "t", "i", "v", "a", "t", "e", "d">>
      [] s = "HIGH: Very crowded conditions" -> <<"H", "I", "G", "H", ":", " ", "V", "e", "r", "y", " ", "c", "r", "o", "w", "d", "e", "d", " ", "c", "o", "n", "d", "i", "t", "i", "o", "n", "s">>
      [] s = "Entry restrictions may be implemented" -> <<"E", "n", "t", "r", "y", " ", "r", "e", "s", "t", "r", "i", "c", "t", "i", "o", "n", "s", " ", "m", "a", "y", " ", "b", "e", " ", "i", "m", "p", "l", "e", "m", "e", "n", "t", "e", "d">>
      [] s = "Alternative routes recommended" -> <<"A", "l", "t", "e", "r", "n", "a", "t", "i", "v", "e", " ", "r", "o", "u", "t", "e", "s", " ", "r", "e", "c", "o", "m", "m", "e", "n", "d", "e", "d">>
      [] s = "MEDIUM: Moderate crowd levels" -> <<"M", "E", "D", "I", "U", "M", ":", " ", "M", "o", "d", "e", "r", "a", "t", "e", " ", "c", "r", "o", "w", "d", " ", "l", "e", "v", "e", "l", "s">>
      [] s = "Monitor for further increases" -> <<"M", "o", "n", "i", "t", "o", "r", " ", "f", "o", "r", " ", "f", "u", "r", "t", "h", "e", "r", " ", "i", "n", "c", "r", "e", "a", "s", "e", "s">>
      [] s = "Prepare crowd management protocols" -> <<"P", "r", "e", "p", "a", "r", "e", " ", "c", "r", "o", "w", "d", " ", "m", "a", "n", "a", "g", "e", "m", "e", "n", "t", " ", "p", "r", "o", "t", "o", "c", "o", "l", "s">>
      [] s = "Slippery conditions near water - exercise caution" -> <<"S", "l", "i", "p", "p", "e", "r", "y", " ", "c", "o", "n", "d", "i", "t", "i", "o", "n", "s", " ", "n", "e", "a", "r", " ", "w", "a", "t", "e", "r", " ", "-", " ", "e", "x", "e", "r", "c", "i", "s", "e", " ", "c", "a", "u", "t", "i", "o", "n">>
      [] s = "Queue management system activated" -> <<"Q", "u", "e", "u", "e", " ", "m", "a", "n", "a", "g", "e", "m", "e", "n", "t", " ", "s", "y", "s", "t", "e", "m", " ", "a", "c", "t", "i", "v", "a", "t", "e", "d">>
      [] s = "Additional transport services deployed" -> <<"A", "d", "d", "i", "t", "i", "o", "n", "a", "l", " ", "t", "r", "a", "n", "s", "p", "o", "r", "t", " ", "s", "e", "r", "v", "i", "c", "e", "s", " ", "d", "e", "p", "l", "o", "y", "e", "d">>
      [] s = "CRITICAL" -> <<"C", "R", "I", "T", "I", "C", "A", "L">>
      [] s = "HIGH" -> <<"H", "I", "G", "H">>
      [] s = "MEDIUM" -> <<"M", "E", "D", "I", "U", "M">>
      [] OTHER -> <<>>

\* generate_safety_alerts: the severity read off the message.
SeverityOf(alert_msg) ==
    IF IsSubstring(MessageChars("CRITICAL"), MessageChars(alert_msg)) THEN "critical"
    ELSE IF IsSubstring(MessageChars("HIGH"), MessageChars(alert_msg)) THEN "high"
    ELSE IF IsSubstring(MessageChars("MEDIUM"), MessageChars(alert_msg)) THEN "medium"
    ELSE "low"

\* random.uniform(2.0, 8.0), one draw per alert: the draws of a call, used in
\* turn and cyclically.
ResponseTimeDraws ==
    {<<20, 50, 80>>, <<80, 50, 20>>, <<50, 50, 50>>, <<80, 20, 65>>}

\* str(i) for the indexes enumerate() yields here.
IndexText(i) ==
    CASE i = 0 -> <<"0">>
      [] i = 1 -> <<"1">>
      [] i = 2 -> <<"2">>
      [] i = 3 -> <<"3">>
      [] OTHER -> <<"9">>

\* str(int(current_time.timestamp())): one value for a whole pass.
PassTimestamp == <<"1", "7">>

\* The id without the index of the message.
AlertIdWithoutIndex(loc_id, i) == Chars(loc_id) \o <<"_">> \o PassTimestamp

\* f"{loc_id}_{i}_{int(current_time.timestamp())}"
AlertId(loc_id, i) ==
    Chars(loc_id) \o <<"_">> \o IndexText(i) \o <<"_">> \o PassTimestamp

\* SafetyAlert(...) for message number i (from 1) of a detection; enumerate()
\* counts from 0.
SafetyAlert(detection, i, response_time) ==
    [alert_id |-> AlertId(detection.location_id, i - 1),
     location_id |-> detection.location_id,
     severity |-> SeverityOf(detection.safety_alerts[i]),
     message |-> detection.safety_alerts[i],
     affected_count |-> detection.crowd_count,
     response_time |-> response_time]

\* generate_safety_alerts: the loop over self.current_detections.items().
RECURSIVE GenerateSafetyAlertsFrom(_, _, _, _)
GenerateSafetyAlertsFrom(detections, draws, li, alerts) ==
    IF li > NumLocs THEN alerts
    ELSE LET detection == detections[LocOrder[li]]
             new == [i \in 1..Len(detection.safety_alerts) |->
                        SafetyAlert(detection, i,
                                    draws[((Len(alerts) + i - 1) % Len(draws)) + 1])]
         IN  GenerateSafetyAlertsFrom(detections, draws, li + 1, alerts \o new)

GenerateSafetyAlerts(detections, draws) ==
    GenerateSafetyAlertsFrom(detections, draws, 1, <<>>)

\* The default of severity_scores.get(alert.severity, 25) for every severity.
SeverityScoreDefault(severity) == 25

\* severity_scores.get(alert.severity, 25)
SeverityScore(severity) ==
    CASE severity = "critical" -> 100
      [] severity = "high"     -> 75
      [] severity = "medium"   -> 50
      [] severity = "low"      -> 25
      [] OTHER                 -> 25

\* _calculate_priority_score: base_score * (1 + crowd_factor) * (1 + time_factor)
\* with crowd_factor in thousandths and time_factor in hundredths.
CalculatePriorityScore(alert) ==
    LET base_score == SeverityScore(alert.severity)
        crowd_factor == Min(alert.affected_count, 2000)
        time_factor == Min(alert.response_time, 150)
    IN  base_score * (1000 + crowd_factor) * (100 + time_factor)

\* One element of formatted_alerts.
FormatAlert(alert) ==
    [id |-> alert.alert_id,
     location_id |-> alert.location_id,
     severity |-> alert.severity,
     message |-> alert.message,
     affected_count |-> alert.affected_count,
     estimated_response_time |-> alert.response_time,
     priority_score |-> CalculatePriorityScore(alert)]

\* list.sort(key=priority_score, reverse=True): stable, descending.
RECURSIVE InsertByPriority(_, _)
InsertByPriority(a, sorted) ==
    IF sorted = <<>> THEN <<a>>
    ELSE IF a.priority_score > Head(sorted).priority_score
         THEN <<a>> \o sorted
         ELSE <<Head(sorted)>> \o InsertByPriority(a, Tail(sorted))

\* The list left in the order of generation.
SortByPriorityOmitted(formatted_alerts) == formatted_alerts

RECURSIVE SortByPriority(_)
SortByPriority(formatted_alerts) ==
    IF formatted_alerts = <<>> THEN <<>>
    ELSE InsertByPriority(formatted_alerts[Len(formatted_alerts)],
                          SortByPriority(SubSeq(formatted_alerts, 1,
                                                Len(formatted_alerts) - 1)))

NoAlertsCall == [op |-> "none"]

\* get_current_alerts: the alerts generated and the response.
GetCurrentAlertsResult(detections, draws) ==
    LET alerts == GenerateSafetyAlerts(detections, draws)
    IN  [op |-> "current",
         status |-> "success",
         alerts |-> alerts,
         formatted_alerts |->
             SortByPriority([i \in 1..Len(alerts) |-> FormatAlert(alerts[i])])]

\* get_location_alerts: the overall safety level of the severities listed.
SafetyLevel(severities) ==
    IF "critical" \in severities THEN "critical"
    ELSE IF "high" \in severities THEN "high"
    ELSE IF "medium" \in severities THEN "medium"
    ELSE "low"

\* get_location_alerts: the alerts of get_current_alerts filtered by location.
GetLocationAlertsResult(detections, draws, location_id) ==
    LET all_alerts == GetCurrentAlertsResult(detections, draws).formatted_alerts
        AtLocationId(alert) == alert.location_id = location_id
        location_alerts == SelectSeq(all_alerts, AtLocationId)
    IN  IF location_alerts = <<>>
        THEN [op |-> "location", status |-> "success", location_id |-> location_id,
              alerts |-> <<>>, safety_level |-> "normal"]
        ELSE [op |-> "location", status |-> "success", location_id |-> location_id,
              alerts |-> location_alerts,
              safety_level |->
                  SafetyLevel({location_alerts[i].severity : i \in 1..Len(location_alerts)})]

\* update_crowd_data: a new generation replaces the detections.
UpdateCrowdData(hour, samples) ==
    /\ alerts_call = NoAlertsCall
    /\ crowd_engine' = [current_detections |-> GenerateRealisticCrowdData(hour, samples)]
    /\ UNCHANGED alerts_call
    /\ UNCHANGED notAlertVars

\* GET /alerts/current
GetCurrentAlerts(draws) ==
    /\ alerts_call = NoAlertsCall
    /\ alerts_call' = GetCurrentAlertsResult(crowd_engine.current_detections, draws)
    /\ UNCHANGED crowd_engine
    /\ UNCHANGED notAlertVars

\* GET /alerts/location/{location_id}
GetLocationAlerts(location_id, draws) ==
    /\ alerts_call = NoAlertsCall
    /\ alerts_call' = GetLocationAlertsResult(crowd_engine.current_detections, draws,
                                              location_id)
    /\ UNCHANGED crowd_engine
    /\ UNCHANGED notAlertVars

\* The response has been sent.
AlertsReturned ==
    /\ alerts_call # NoAlertsCall
    /\ alerts_call' = NoAlertsCall
    /\ UNCHANGED crowd_engine
    /\ UNCHANGED notAlertVars

\* The specifications of the other subsystems leave the content of the
\* detections out.
IdleAlerts ==
    /\ crowd_engine = [current_detections |-> EmptyDict]
    /\ alerts_call = NoAlertsCall

\* CrowdIntelligenceEngine.__init__: the first generation.
InitAlerts ==
    /\ \E hour \in Hours, samples \in MovementSamples :
          crowd_engine = [current_detections |-> GenerateRealisticCrowdData(hour, samples)]
    /\ alerts_call = NoAlertsCall

NextAlerts ==
    \/ \E hour \in Hours, samples \in MovementSamples : UpdateCrowdData(hour, samples)
    \/ \E draws \in ResponseTimeDraws : GetCurrentAlerts(draws)
    \/ \E location_id \in Locs \cup {"parking_north"}, draws \in ResponseTimeDraws :
          GetLocationAlerts(location_id, draws)
    \/ AlertsReturned

(***************************************************************************)
(* Road network of the routing engine: services/advanced_routing.py        *)
(* Distances are in tenths of a kilometre.                                 *)
(***************************************************************************)
MaxConnections == 3

\* The connections list of _build_intelligent_network.
ShippedConnections ==
    <<[start |-> "ram_ghat_main", end |-> "mahakal_temple", distance |-> 18,
       type |-> "arterial"],
      [start |-> "ram_ghat_main", end |-> "shipra_ghat_1", distance |-> 4,
       type |-> "pedestrian"],
      [start |-> "shipra_ghat_1", end |-> "shipra_ghat_2", distance |-> 3,
       type |-> "pedestrian"],
      [start |-> "transport_hub_central", end |-> "ram_ghat_main", distance |-> 8,
       type |-> "main_road"],
      [start |-> "transport_hub_east", end |-> "mahakal_temple", distance |-> 12,
       type |-> "main_road"],
      [start |-> "medical_center_primary", end |-> "ram_ghat_main", distance |-> 4,
       type |-> "emergency_road"],
      [start |-> "food_court_main", end |-> "ram_ghat_main", distance |-> 5,
       type |-> "pedestrian"],
      [start |-> "rest_area_families", end |-> "ram_ghat_main", distance |-> 6,
       type |-> "pedestrian"],
      [start |-> "info_center_main", end |-> "ram_ghat_main", distance |-> 2,
       type |-> "pedestrian"],
      [start |-> "vip_reception", end |-> "mahakal_temple", distance |-> 7,
       type |-> "vip_road"]>>

\* Connections a list is drawn from: four shipped ones and one whose end,
\* "parking_north", is an id of alerts.py that the engine does not register.
ConnectionPool ==
    {ShippedConnections[1], ShippedConnections[2], ShippedConnections[3],
     ShippedConnections[10],
     [start |-> "transport_hub_central", end |-> "parking_north", distance |-> 5,
      type |-> "main_road"]}

RECURSIVE SeqsUpTo(_, _)
SeqsUpTo(S, n) ==
    IF n = 0 THEN {<<>>}
    ELSE LET shorter == SeqsUpTo(S, n - 1)
         IN  shorter \cup {Append(s, x) : s \in shorter, x \in S}

\* The connection lists the network is built from: the shipped list and every
\* list of at most MaxConnections connections of the pool.
ConnectionLists == {ShippedConnections} \cup SeqsUpTo(ConnectionPool, MaxConnections)

\* if start not in network: network[start] = []
DictSetDefault(network, k) ==
    IF k \in DOMAIN network THEN network
    ELSE [x \in DOMAIN network \cup {k} |-> IF x = k THEN <<>> ELSE network[x]]

\* enhanced_props = props.copy(); enhanced_props.update({...}): of the drawn
\* properties the model keeps "digital_integration" (random.choice).
EnhancedProps(c, digital_integration) ==
    [type |-> c.type,
     digital_integration |-> digital_integration,
     emergency_priority |-> c.type \in {"emergency", "medical", "security"}]

\* The loop body with the entry of the end location left out.
AddConnectionOneWay(network, c, digital_integration) ==
    LET n0 == DictSetDefault(DictSetDefault(network, c.start), c.end)
    IN  [n0 EXCEPT ![c.start] =
            Append(@, <<c.end, c.distance, EnhancedProps(c, digital_integration)>>)]

\* One iteration of `for start, end, props in connections`: both entries hold
\* the same enhanced_props.
AddConnection(network, c, digital_integration) ==
    LET enhanced_props == EnhancedProps(c, digital_integration)
        n0 == DictSetDefault(DictSetDefault(network, c.start), c.end)
        n1 == [n0 EXCEPT ![c.start] = Append(@, <<c.end, c.distance, enhanced_props>>)]
    IN  [n1 EXCEPT ![c.end] = Append(@, <<c.start, c.distance, enhanced_props>>)]

RECURSIVE BuildNetworkFrom(_, _, _, _)
BuildNetworkFrom(connections, draws, i, network) ==
    IF i > Len(connections) THEN network
    ELSE BuildNetworkFrom(connections, draws, i + 1,
                          AddConnection(network, connections[i], draws[i]))

\* _build_intelligent_network; draws[i] is the random.choice([True, False]) of
\* connection i.
BuildIntelligentNetworkResult(connections, draws) ==
    BuildNetworkFrom(connections, draws, 1, EmptyDict)

\* _build_networkx_graph: G.add_node for every location, G.add_edge for every
\* entry of the road network (add_edge creates the nodes it does not find).
BuildNetworkxGraphResult(road_network) ==
    LET edges == UNION {{{s, road_network[s][i][1]} : i \in 1..Len(road_network[s])} :
                           s \in DOMAIN road_network}
    IN  [nodes |-> EngineLocs \cup UNION edges, edges |-> edges]

\* The engine before _build_intelligent_network has run.
NewEngine(connections, ml_available) ==
    [phase |-> "init", connections |-> connections, ML_AVAILABLE |-> ml_available,
     road_network |-> EmptyDict, graph |-> "None", error |-> "none"]

\* AIRoutingEngine.__init__: self.road_network = self._build_intelligent_network()
BuildIntelligentNetwork ==
    /\ ai_routing_engine.phase = "init"
    /\ \E draws \in [1..Len(ai_routing_engine.connections) -> BOOLEAN] :
          ai_routing_engine' =
             [ai_routing_engine EXCEPT
                 !.phase = "network",
                 !.road_network =
                     BuildIntelligentNetworkResult(ai_routing_engine.connections, draws)]
    /\ UNCHANGED notNetworkVars

\* AIRoutingEngine.__init__: self.graph = self._build_networkx_graph() if
\* ML_AVAILABLE, else None; the engine then serves requests.
BuildNetworkxGraph ==
    /\ ai_routing_engine.phase = "network"
    /\ ai_routing_engine' =
          [ai_routing_engine EXCEPT
              !.phase = "serving",
              !.graph = IF ai_routing_engine.ML_AVAILABLE
                        THEN BuildNetworkxGraphResult(ai_routing_engine.road_network)
                        ELSE "None"]
    /\ UNCHANGED notNetworkVars

\* The specifications of the other subsystems leave the road network out.
IdleNetwork == ai_routing_engine = NewEngine(<<>>, TRUE)

InitNetwork ==
    \E connections \in ConnectionLists, ml_available \in BOOLEAN :
        ai_routing_engine = NewEngine(connections, ml_available)

NextNetwork ==
    \/ BuildIntelligentNetwork
    \/ BuildNetworkxGraph

(***************************************************************************)
(* Alert service: services/alert_service.py, utils/config.py               *)
(***************************************************************************)
\* utils/config.py
CROWD_THRESHOLD_MEDIUM == 500

CROWD_THRESHOLD_HIGH == 1000

\* utils/config.py: ALERT_ACTIONS
ALERT_ACTIONS(level) ==
    CASE level = "LOW"    -> "Monitor area"
      [] level = "MEDIUM" -> "Divert traffic and notify officials"
      [] level = "HIGH"   -> "Evacuate area and deploy emergency response"

\* The dict literal generate_alert indexes with the severity.
RecommendedAction(severity) ==
    CASE severity = "LOW"    -> "Monitor area"
      [] severity = "MEDIUM" -> "Divert traffic and notify officials"
      [] severity = "HIGH"   -> "Evacuate area and deploy emergency response"

\* generate_alert with the crowd tests after the flag tests.
GenerateAlertCountLast(location_id, people_count, fire, stampede) ==
    LET severity1 == IF fire \/ stampede THEN "HIGH" ELSE "LOW"
        severity2 == IF people_count > 500 THEN "MEDIUM" ELSE severity1
        severity3 == IF people_count > 1000 THEN "HIGH" ELSE severity2
    IN  [location_id |-> location_id,
         alert_level |-> severity3,
         trigger_reasons |->
             (IF fire THEN <<"Fire detected">> ELSE <<>>)
             \o (IF stampede THEN <<"Stampede risk">> ELSE <<>>)
             \o (IF people_count > 500 THEN <<"High crowd density">> ELSE <<>>)
             \o (IF people_count > 1000 THEN <<"Critical crowd overload">> ELSE <<>>),
         recommended_action |-> RecommendedAction(severity3)]

\* generate_alert: four tests in sequence, each overwriting severity and
\* appending its reason.
GenerateAlertResult(location_id, people_count, fire, stampede) ==
    LET severity1 == IF people_count > 500 THEN "MEDIUM" ELSE "LOW"
        severity2 == IF people_count > 1000 THEN "HIGH" ELSE severity1
        severity3 == IF fire THEN "HIGH" ELSE severity2
        severity4 == IF stampede THEN "HIGH" ELSE severity3
    IN  [location_id |-> location_id,
         alert_level |-> severity4,
         trigger_reasons |->
             (IF people_count > 500 THEN <<"High crowd density">> ELSE <<>>)
             \o (IF people_count > 1000 THEN <<"Critical crowd overload">> ELSE <<>>)
             \o (IF fire THEN <<"Fire detected">> ELSE <<>>)
             \o (IF stampede THEN <<"Stampede risk">> ELSE <<>>),
         recommended_action |-> RecommendedAction(severity4)]

\* The people counts passed: both sides of each comparison and the extremes.
PeopleCounts == {0, 1, 499, 500, 501, 750, 1000, 1001, 1500, 20000}

AlertLocationIds == {"main_ghat", "mahakal_temple", "gate_7"}

NoAlert == [phase |-> "idle"]

\* A caller invokes generate_alert and holds what it returned.
GenerateAlert(location_id, people_count, fire, stampede) ==
    /\ generated_alert.phase = "idle"
    /\ generated_alert' =
           [phase |-> "returned",
            in |-> [location_id |-> location_id, people_count |-> people_count,
                    fire |-> fire, stampede |-> stampede],
            out |-> GenerateAlertResult(location_id, people_count, fire, stampede)]
    /\ UNCHANGED notServiceVars

\* The caller is done with the alert.
AlertDone ==
    /\ generated_alert.phase = "returned"
    /\ generated_alert' = NoAlert
    /\ UNCHANGED notServiceVars

InitService == generated_alert = NoAlert

NextService ==
    \/ \E location_id \in AlertLocationIds, people_count \in PeopleCounts,
          fire \in BOOLEAN, stampede \in BOOLEAN :
          GenerateAlert(location_id, people_count, fire, stampede)
    \/ AlertDone

(***************************************************************************)
(* Specifications                                                          *)
(***************************************************************************)
\* Each specification starts its own subsystem and holds the others idle.
CrowdInit == InitCrowd /\ IdleRoutes /\ IdleSmart /\ InitAccess /\ IdleAlerts /\ IdleNetwork
                /\ InitService

SpecCrowd == CrowdInit /\ [][NextCrowd]_vars

RoutesInit == InitRoutes /\ InitCrowd /\ IdleSmart /\ InitAccess /\ IdleAlerts /\ IdleNetwork
                /\ InitService

SpecRoutes == RoutesInit /\ [][NextRoutes]_vars

SmartPathInit == InitSmart /\ InitCrowd /\ IdleRoutes /\ InitAccess /\ IdleAlerts /\ IdleNetwork
                /\ InitService

SpecSmartPath == SmartPathInit /\ [][NextSmart]_vars

AccessInit == InitAccess /\ InitCrowd /\ IdleRoutes /\ IdleSmart /\ IdleAlerts /\ IdleNetwork
                /\ InitService

SpecAccess == AccessInit /\ [][NextAccess]_vars

AlertsInit == InitAlerts /\ InitCrowd /\ IdleRoutes /\ IdleSmart /\ InitAccess /\ IdleNetwork
                /\ InitService

SpecAlerts == AlertsInit /\ [][NextAlerts]_vars

NetworkInit == InitNetwork /\ InitCrowd /\ IdleRoutes /\ IdleSmart /\ InitAccess /\ IdleAlerts
                /\ InitService

SpecNetwork == NetworkInit /\ [][NextNetwork]_vars

ServiceInit == InitService /\ InitCrowd /\ IdleRoutes /\ IdleSmart /\ InitAccess /\ IdleAlerts
                /\ IdleNetwork

SpecService == ServiceInit /\ [][NextService]_vars

(***************************************************************************)
(* Claims about the crowd state model, checked under SpecCrowd             *)
(***************************************************************************)
RefreshTasks == {t \in TaskIds : tasks[t].kind = "refresh"}

ReaderTasks == {t \in TaskIds : tasks[t].kind \in ReaderKinds}

\* C7: the published dict is always the complete product of one generation:
\* it has an entry for every location, and every entry was built by the
\* generation that built the dict (no entry of another generation was written
\* into it), in every state, also while a refresh is generating.
C7_SnapshotOneGeneration ==
    /\ DOMAIN current_detections.entries = Locs
    /\ \A l \in Locs :
          /\ current_detections.entries[l].gen = current_detections.id
          /\ current_detections.entries[l].location_id = l

\* C7 witness: a refresh has built some but not all locations in its private
\* dict while the published dict is the product of an earlier refresh.
C7_Witness ==
    \E t \in RefreshTasks :
        /\ Active(t)
        /\ tasks[t].pc = "generate"
        /\ tasks[t].idx \in 2..NumLocs
        /\ DOMAIN tasks[t].detections # {}
        /\ current_detections.id >= 1
        /\ current_detections.id < tasks[t].gen

\* C8: every evaluation of crowd_engine.current_detections that one reader
\* request makes yields the dict its first evaluation yielded.
C8_ReaderOneSnapshot ==
    \A t \in ReaderTasks :
        \A i \in DOMAIN tasks[t].reads : tasks[t].reads[i] = tasks[t].reads[1]

\* C8 witness: a reader that evaluates current_detections several times has
\* made all its reads, of a dict that a refresh published, while a refresh
\* request is waiting to run.
C8_Witness ==
    \E t \in ReaderTasks :
        /\ Active(t)
        /\ tasks[t].pc = "respond"
        /\ Len(tasks[t].reads) >= 3
        /\ tasks[t].reads[1] >= 1
        /\ \E u \in RefreshTasks : tasks[u].status = "pending"

\* C9: at most one refresh is between its start and its return, and a refresh
\* that is generating builds a later generation than the published one, so
\* dicts are published in the order their generations started.
C9_SingleWriterInOrder ==
    /\ Cardinality({t \in RefreshTasks : Active(t)}) <= 1
    /\ \A t \in RefreshTasks :
          (Active(t) /\ tasks[t].pc = "generate") => tasks[t].gen > current_detections.id

\* C9 witness: a refresh request waits while another refresh is generating.
C9_Witness ==
    \E t \in RefreshTasks, u \in RefreshTasks :
        /\ t # u
        /\ Active(t)
        /\ tasks[t].pc = "generate"
        /\ tasks[t].idx >= 2
        /\ tasks[u].status = "pending"

\* C19: refreshing is idempotent within the debounce window: a second refresh
\* request that arrives right after an earlier refresh request has published
\* its snapshot (before that request is even answered) triggers no new generation, and the snapshot it publishes is the one the
\* first request published.
C19_SecondRefreshReusesGeneration ==
    \A t \in TaskIds : \A u \in tasks[t].behind :
        (tasks[t].result = "success" /\ tasks[u].result = "success")
            => tasks[t].gen = tasks[u].gen

\* C10: a refresh in which the generation of one location failed has still
\* completed successfully and has published its new values for every other
\* location, the failed location keeping the values published before.
C10_PartialFailureIsolated ==
    \A t \in RefreshTasks :
        (tasks[t].status = "done" /\ tasks[t].failedLoc # "none") =>
            /\ tasks[t].result = "success"
            /\ \A l \in Locs \ {tasks[t].failedLoc} :
                  current_detections.entries[l].gen >= tasks[t].gen
            /\ current_detections.entries[tasks[t].failedLoc].gen < tasks[t].gen

\* C30: after initialisation and after any sequence of successful or failed
\* refreshes the current snapshot holds exactly the location ids of
\* locations_data, and the snapshot changes only when a refresh that generated
\* every location publishes: every step of a refresh that raises, the raise and
\* the error response included, leaves the published snapshot as it was.
C30_SnapshotKeysFixed ==
    /\ [](DOMAIN current_detections.entries = Locs)
    /\ [][current_detections' # current_detections
             => \E t \in TaskIds : /\ tasks[t].kind = "refresh"
                                   /\ tasks[t].pc = "generate"
                                   /\ tasks[t].idx = NumLocs + 1
                                   /\ tasks[t].failedLoc = "none"
                                   /\ tasks'[t].pc = "respond"]_vars

\* C30 witness: a refresh that had generated some locations raised and was
\* answered with an error after an earlier refresh had published, and the
\* snapshot of the earlier refresh is the current one.
C30_Witness ==
    \E t, u \in TaskIds :
        /\ tasks[t].kind = "refresh" /\ tasks[t].result = "error500"
        /\ tasks[t].failedLoc \notin {"none", LocOrder[1]}
        /\ tasks[u].kind = "refresh" /\ tasks[u].result = "success"
        /\ tasks[u].gen < tasks[t].gen
        /\ current_detections = [id |-> tasks[u].gen, entries |-> FullDict(tasks[u].gen)]

(***************************************************************************)
(* Claims about route planning, checked under SpecRoutes                   *)
(***************************************************************************)
\* The route list the caller of the last call received.
ReturnedRoutes ==
    IF call.op = "engine" THEN call.out
    ELSE IF call.op = "calculate" THEN call.out.routes
    ELSE <<>>

\* The policy a returned route was planned under, from its name.
PolicyOf(route) ==
    CASE route.name = "AI-Optimized Route" -> "optimal"
      [] route.name = "Fastest Route"      -> "fastest"
      [] route.name = "Safest Route"       -> "safest"
      [] route.name = "Accessible Route"   -> "accessible"

ReturnedPolicies == {PolicyOf(ReturnedRoutes[i]) : i \in 1..Len(ReturnedRoutes)}

\* The request's preference profile requires accessibility.
RequiresAccessibility ==
    IF call.op = "engine"
    THEN call.in.accessible_route
         \/ (call.in.user_profile.present /\ call.in.user_profile.accessibility_needs)
    ELSE call.in.accessible_route \/ call.in.user_type \in {"elderly", "divyangjan"}

\* custom_<lat>_<lng> with two well-formed numbers.
IsCustomCoordinates(id) ==
    LET cs == Chars(id)
    IN  /\ StartsWith(cs, Chars("custom_"))
        /\ LET coords == Split(RemoveAll(cs, Chars("custom_")), "_")
           IN  Len(coords) = 2 /\ IsFloatText(coords[1]) /\ IsFloatText(coords[2])

\* An id that one of the planners' location tables knows.
KnownLocation(id) ==
    id \in EngineLocs \/ IsCustomCoordinates(id) \/ FallbackMatch(id) # 0

RequestStart == IF call.op = "engine" THEN call.in.start_id ELSE call.in.start_location

RequestEnd == IF call.op = "engine" THEN call.in.end_id ELSE call.in.end_location

\* C1: two get_multiple_routes calls with the same start, end and preference
\* profile return identical output: the same routes, in the same order, with
\* the same field values.
C1_RepeatedCallIdentical ==
    (call.op = "engine" /\ call.phase = "returned_twice") => call.out2 = call.out

\* C3: a route request whose start id or end id is not a known location is
\* rejected (no routes are returned); no route is computed for a default
\* location substituted for the unknown id.
C3_UnknownLocationRejected ==
    (call.op \in {"engine", "calculate"}
     /\ (~KnownLocation(RequestStart) \/ ~KnownLocation(RequestEnd)))
        => ReturnedRoutes = <<>>

\* C5: the set of policies planned for a request is exactly {optimal, fastest,
\* safest}, plus accessible exactly when the preference profile requires
\* accessibility, and the result holds at most one route per policy.
C5_PolicySetExact ==
    call.op \in {"engine", "calculate"} =>
        /\ ReturnedPolicies =
              {"optimal", "fastest", "safest"}
              \cup (IF RequiresAccessibility THEN {"accessible"} ELSE {})
        /\ Len(ReturnedRoutes) = Cardinality(ReturnedPolicies)

\* C6: in every route result that contains an optimal-policy route, that route
\* is first in the returned list, and the remaining routes are in ascending
\* order of total cost (distance).
C6_OptimalFirstThenAscendingCost ==
    (call.op \in {"engine", "calculate"} /\ "optimal" \in ReturnedPolicies) =>
        /\ PolicyOf(ReturnedRoutes[1]) = "optimal"
        /\ \A i \in 2..Len(ReturnedRoutes), j \in 2..Len(ReturnedRoutes) :
              i < j => ReturnedRoutes[i].distance <= ReturnedRoutes[j].distance

\* C28: within one result of get_multiple_routes, no two routes have the same
\* id.
C28_RouteIdsUnique ==
    (call.op = "engine" /\ call.phase = "returned")
        => \A j, k \in 1..Len(call.out) : j # k => call.out[j].id # call.out[k].id

C24_InfoEndpointsSucceed ==
    call.op \in {"weather", "analytics", "crowd_data"}
        => /\ call.out.status_code = 200
           /\ call.out.error = "none"
           /\ InfoKey(call.op) \in call.out.keys

\* C18: a route request with start equal to end returns, without error, routes
\* that consist of the single start node (one waypoint, no intermediate
\* checkpoint) with distance zero and duration zero.
C18_SameStartEndSingleNode ==
    (call.op \in {"engine", "calculate"} /\ RequestStart = RequestEnd
     /\ KnownLocation(RequestStart))
        => /\ ReturnedRoutes # <<>>
           /\ \A i \in 1..Len(ReturnedRoutes) :
                 LET r == ReturnedRoutes[i]
                 IN  /\ Len(r.waypoints) = 1
                     /\ r.distance = 0
                     /\ IF "duration_seconds" \in DOMAIN r
                        THEN r.duration_seconds = 0 ELSE r.duration = 0

(***************************************************************************)
(* Claims about the smart path, checked under SpecSmartPath                *)
(***************************************************************************)
\* C2: every route request ends in either a non-empty route or an explicit
\* structured no-route result that names the attempted policies and the
\* excluded nodes; never in an unstructured error.
C2_RoutesOrStructuredNoRoute ==
    smart.phase = "returned" =>
        \/ "path" \in DOMAIN smart.out /\ smart.out.path # <<>>
        \/ /\ "path" \in DOMAIN smart.out
           /\ smart.out.path = <<>>
           /\ "removed_nodes" \in DOMAIN smart.out
           /\ \E f \in DOMAIN smart.out :
                 f \in {"policies", "attempted_policies", "policies_attempted"}

\* C17 as stated: on the scenario graph with node C unsafe, the search from A
\* to E returns the path A-F-E.
C17_SafeRouteIsAFE ==
    (smart.phase = "returned" /\ "C" \in unsafe_nodes
     /\ "start" \in DOMAIN smart.out /\ smart.out.start = "A" /\ smart.out.end = "E")
        => smart.out.path = <<"A", "F", "E">>

\* C17 amended: on the scenario graph with node C unsafe, the search from A to
\* E returns the path A-B-F-E of total length 5, which avoids C.
C17_SafeRouteIsABFE ==
    (smart.phase = "returned" /\ "C" \in unsafe_nodes
     /\ "start" \in DOMAIN smart.out /\ smart.out.start = "A" /\ smart.out.end = "E")
        => /\ smart.out.path = <<"A", "B", "F", "E">>
           /\ smart.out.total_distance_m = 5
           /\ smart.out.removed_nodes \cap {"A", "B", "F", "E"} = {}

\* C17 witness: a search from A to E has returned a path while C is unsafe and
\* was removed from the graph searched.
C17_Witness ==
    /\ smart.phase = "returned"
    /\ unsafe_nodes = {"C"}
    /\ "path" \in DOMAIN smart.out
    /\ smart.out.path # <<>>
    /\ smart.out.start = "A"
    /\ smart.out.end = "E"
    /\ "C" \in smart.out.removed_nodes

\* C26: for every user type the removed set a result reports is the unsafe
\* nodes, joined with the steep nodes exactly for divyangjan and elderly in any
\* letter case; a non-null path contains none of these nodes; and when the
\* start or end node is removed or cannot be reached without them, the path is
\* null and the removed nodes are still reported.
C26_PathAvoidsRemoved ==
    (smart.phase = "returned" /\ "error" \notin DOMAIN smart.out)
        => LET removed == unsafe_nodes \cup
                              (IF Lower(Chars(smart.in.user_type))
                                      \in {Chars("divyangjan"), Chars("elderly")}
                               THEN steep_nodes ELSE {})
               cut_off == \/ smart.out.start \in removed
                          \/ smart.out.end \in removed
                          \/ PathsFrom(GNodes \ removed, <<smart.out.start>>, smart.out.end) = {}
           IN  /\ smart.out.removed_nodes = removed
               /\ {smart.out.path[i] : i \in 1..Len(smart.out.path)} \cap removed = {}
               /\ cut_off <=> smart.out.path = <<>>

\* C26 witness: a mixed-case Divyangjan request returned a path of several
\* nodes while both an unsafe and a steep node are removed.
C26_Witness ==
    /\ smart.phase = "returned"
    /\ "error" \notin DOMAIN smart.out
    /\ smart.in.user_type = "Divyangjan"
    /\ unsafe_nodes # {} /\ steep_nodes # {}
    /\ smart.out.removed_nodes = unsafe_nodes \cup steep_nodes
    /\ Len(smart.out.path) > 1

\* C26: a request whose end node is itself removed has come back with a null
\* path and a non-empty removed set.
C26_NullPathReached ==
    /\ smart.phase = "returned"
    /\ "error" \notin DOMAIN smart.out
    /\ smart.out.end \in smart.out.removed_nodes
    /\ smart.out.path = <<>>

(***************************************************************************)
(* Claims about the accessibility optimizer, checked under SpecAccess      *)
(***************************************************************************)
\* C4: when the request requires accessibility (wheelchair access), no
\* returned route contains a segment narrower than the 2.0 m minimum.
C4_NoNarrowConnectionReturned ==
    (access.phase = "returned" /\ access.user_needs.wheelchair_access) =>
        \A i \in 1..Len(access.out) :
            \A j \in 1..Len(access.out[i].segments) :
                access.out[i].segments[j].width >= WheelchairMinWidth

(***************************************************************************)
(* Claims about detections and alerts, checked under SpecAlerts            *)
(***************************************************************************)
\* The alerts of the call in progress that belong to one location.
AlertsOf(l) ==
    LET AtLocation(a) == a.location_id = l
    IN  SelectSeq(alerts_call.alerts, AtLocation)

\* The numerators of the movement fractions of one detection.
MovementNumerators(d) == [k \in 1..Len(d.movement_patterns) |-> d.movement_patterns[k][1]]

\* C11: after initialisation and after any sequence of refreshes, every
\* location entry of the current snapshot has crowd count >= 0, flow rate >= 0
\* and density equal to min(count / capacity, 1), hence within [0, 1],
\* including when the count exceeds the capacity.
C11_CountFlowDensity ==
    \A l \in Locs :
        LET d == crowd_engine.current_detections[l]
            capacity == LocationsData(l).capacity
        IN  /\ d.crowd_count >= 0
            /\ d.flow_rate >= 0
            /\ 0 <= d.density_level /\ d.density_level <= 10000
            /\ IF d.crowd_count >= capacity
               THEN d.density_level = 10000
               ELSE d.density_level * capacity = d.crowd_count * 10000

\* C11 witness: a snapshot with a location whose count exceeds its capacity
\* and whose density is 1.
C11_Witness ==
    \E l \in Locs :
        /\ crowd_engine.current_detections[l].crowd_count > LocationsData(l).capacity
        /\ crowd_engine.current_detections[l].density_level = 10000

\* C12: in every published snapshot the five movement-pattern fractions of
\* every location are each non-negative and sum to 1, whatever values were
\* sampled before the renormalisation.
C12_MovementFractionsSumToOne ==
    \A l \in Locs :
        LET m == crowd_engine.current_detections[l].movement_patterns
        IN  /\ Len(m) = Len(MovementKeys)
            /\ \A k \in 1..Len(m) : m[k][1] >= 0 /\ m[k][2] > 0 /\ m[k][2] = m[1][2]
            /\ SumSeq(MovementNumerators(crowd_engine.current_detections[l])) = m[1][2]

\* C12 witness: a snapshot whose samples did not sum to 1.00 as drawn.
C12_Witness ==
    \E l \in Locs :
        LET d == crowd_engine.current_detections[l]
        IN  /\ SumSeq(MovementNumerators(d)) # 100
            /\ d.movement_patterns[1][2] = SumSeq(MovementNumerators(d))

\* C13: for a ghat location whose density is at or above the critical
\* threshold, alert generation produces exactly one alert for that location,
\* and its severity is critical.
C13_CriticalGhatOneCriticalAlert ==
    alerts_call.op = "current" =>
        \A l \in Locs :
            (/\ LocationsData(l).location_type = "ghat"
             /\ crowd_engine.current_detections[l].density_level
                   >= SafetyThresholds("ghat").critical * 100)
                => /\ Len(AlertsOf(l)) = 1
                   /\ AlertsOf(l)[1].severity = "critical"

\* The highest of the four bands of a location class that a density reaches.
HighestBandReached(location_type, density) ==
    LET thresholds == SafetyThresholds(location_type)
    IN  IF density >= thresholds.critical * 100 THEN "critical"
        ELSE IF density >= thresholds.high * 100 THEN "high"
        ELSE IF density >= thresholds.medium * 100 THEN "medium"
        ELSE IF density >= thresholds.low * 100 THEN "low"
        ELSE "none"

\* C14: for every location and density the severity of the alert generated is
\* the highest of the four threshold bands (low, medium, high, critical) the
\* density has reached; a density in [low, medium) yields severity low, and a
\* location yields no alert only when its density is below its low threshold.
C14_SeverityIsHighestBand ==
    alerts_call.op = "current" =>
        \A l \in Locs :
            LET band == HighestBandReached(LocationsData(l).location_type,
                                           crowd_engine.current_detections[l].density_level)
            IN  IF band = "none"
                THEN AlertsOf(l) = <<>>
                ELSE /\ AlertsOf(l) # <<>>
                     /\ \A i \in 1..Len(AlertsOf(l)) : AlertsOf(l)[i].severity = band

\* C15: the current-alerts listing contains every alert generated from the
\* snapshot, none dropped or filtered because of its priority score, and
\* lists them in non-increasing order of priority score.
C15_ListingCompleteAndSorted ==
    alerts_call.op = "current" =>
        LET alerts == alerts_call.alerts
            listing == alerts_call.formatted_alerts
            detections == crowd_engine.current_detections
        IN  /\ \A l \in Locs : \A i \in 1..Len(detections[l].safety_alerts) :
                  \E j \in 1..Len(alerts) :
                      /\ alerts[j].alert_id = AlertId(l, i - 1)
                      /\ alerts[j].message = detections[l].safety_alerts[i]
            /\ Len(listing) = Len(alerts)
            /\ \A j \in 1..Len(alerts) :
                  \E k \in 1..Len(listing) :
                      /\ listing[k].id = alerts[j].alert_id
                      /\ listing[k].message = alerts[j].message
            /\ \A k \in 1..(Len(listing) - 1) :
                  listing[k].priority_score >= listing[k + 1].priority_score

\* C15 witness: a listing of several alerts whose order differs from the
\* order of generation.
C15_Witness ==
    /\ alerts_call.op = "current"
    /\ Len(alerts_call.formatted_alerts) >= 2
    /\ \E k \in 1..Len(alerts_call.formatted_alerts) :
          alerts_call.formatted_alerts[k].id # alerts_call.alerts[k].alert_id

\* The severities, lowest first.
SeverityOrder == <<"low", "medium", "high", "critical">>

\* C16: the priority score of every alert equals severity_weight *
\* (1 + min(affected_count / 1000, 2)) * (1 + min(response_time / 10, 1.5)),
\* and the weights increase strictly from low to critical, so that with equal
\* affected count and response time a higher severity always gets a strictly
\* higher priority.
C16_PriorityScoreFormula ==
    alerts_call.op = "current" =>
        \A j \in 1..Len(alerts_call.alerts) :
            LET a == alerts_call.alerts[j]
            IN  /\ \E k \in 1..Len(alerts_call.formatted_alerts) :
                      /\ alerts_call.formatted_alerts[k].id = a.alert_id
                      /\ alerts_call.formatted_alerts[k].priority_score =
                            SeverityScore(a.severity)
                            * (1000 + Min(a.affected_count, 2000))
                            * (100 + Min(a.response_time, 150))
                /\ \A x, y \in 1..Len(SeverityOrder) :
                      x < y => CalculatePriorityScore([a EXCEPT !.severity = SeverityOrder[x]])
                               < CalculatePriorityScore([a EXCEPT !.severity = SeverityOrder[y]])

\* C16 witness: a listing with two alerts of different severity, equal
\* affected count above 2000 and equal response time.
C16_Witness ==
    /\ alerts_call.op = "current"
    /\ \E j, k \in 1..Len(alerts_call.alerts) :
          /\ alerts_call.alerts[j].severity # alerts_call.alerts[k].severity
          /\ alerts_call.alerts[j].affected_count = alerts_call.alerts[k].affected_count
          /\ alerts_call.alerts[j].affected_count > 2000
          /\ alerts_call.alerts[j].response_time = alerts_call.alerts[k].response_time

\* C22: within one alert-generation pass, no two alerts have the same alert
\* id (built from location id, index within the location and generation
\* timestamp).
C22_AlertIdsUnique ==
    alerts_call.op = "current" =>
        \A j, k \in 1..Len(alerts_call.alerts) :
            j # k => alerts_call.alerts[j].alert_id # alerts_call.alerts[k].alert_id

\* C22 witness: a pass that generated several alerts for one location and
\* alerts for several locations.
C22_Witness ==
    /\ alerts_call.op = "current"
    /\ \E j, k \in 1..Len(alerts_call.alerts) :
          /\ j # k
          /\ alerts_call.alerts[j].location_id = alerts_call.alerts[k].location_id
    /\ \E j, k \in 1..Len(alerts_call.alerts) :
          alerts_call.alerts[j].location_id # alerts_call.alerts[k].location_id

\* The hours of the peak windows 04:00-07:00 and 16:00-19:00.
GhatPeakHours == (4..7) \cup (16..19)

\* C23: the time-of-day multiplier is a total function of (location class,
\* hour) for every hour 0..23, and for class ghat every hour in the peak
\* windows 04:00-07:00 and 16:00-19:00 has a multiplier strictly greater than
\* the multiplier at midday (hour 12).
C23_GhatPeaksAboveMidday ==
    LET hour == crowd_engine.current_detections["main_ghat"].timestamp
    IN  /\ \A l \in Locs :
              GetTimeBasedMultiplier(LocationsData(l).location_type, hour) \in Nat \ {0}
        /\ hour \in GhatPeakHours
              => GetTimeBasedMultiplier("ghat", hour) > GetTimeBasedMultiplier("ghat", 12)

\* C27: whenever a location has at least one alert, the highest severity among
\* its alerts is medium, high or critical, because no location-specific
\* advisory is generated at a density below the medium band of its class; so
\* get_location_alerts never reports safety level low for a non-empty list.
C27_AdvisoryNeverAlone ==
    /\ \A l \in DOMAIN crowd_engine.current_detections :
          LET msgs == crowd_engine.current_detections[l].safety_alerts
          IN  msgs # <<>> =>
                  SafetyLevel({SeverityOf(msgs[i]) : i \in 1..Len(msgs)})
                      \in {"medium", "high", "critical"}
    /\ \A t \in ThresholdTypes \cup {"helipad"} :
          \A density \in {0, 5000, 7000, 7001, 7499, 7500, 8000, 8001, 8499,
                           8500, 8501, 9000, 9500, 9800, 10000} :
              LET msgs == LocationSafetyAlerts("any", density, t)
              IN  msgs # <<>> =>
                      SafetyLevel({SeverityOf(msgs[i]) : i \in 1..Len(msgs)})
                          \in {"medium", "high", "critical"}
    /\ (alerts_call.op = "location" /\ alerts_call.alerts # <<>>)
          => alerts_call.safety_level \in {"medium", "high", "critical"}

\* C27 witness: get_location_alerts has answered for a location whose list
\* holds a location-specific advisory next to its band alert.
C27_Witness ==
    /\ alerts_call.op = "location"
    /\ \E j, k \in 1..Len(alerts_call.alerts) :
          /\ alerts_call.alerts[j].message = "Slippery conditions near water - exercise caution"
          /\ alerts_call.alerts[j].severity = "low"
          /\ alerts_call.alerts[k].severity = alerts_call.safety_level

(***************************************************************************)
(* Claims about the road network, checked under SpecNetwork                *)
(***************************************************************************)
\* The ids a connection list names that the engine does not register.
UnknownEndpoints(connections) ==
    ({connections[i].start : i \in 1..Len(connections)}
     \cup {connections[i].end : i \in 1..Len(connections)}) \ EngineLocs

C21_NetworkSymmetric ==
    ai_routing_engine.phase # "init" =>
        LET network == ai_routing_engine.road_network
            connections == ai_routing_engine.connections
        IN  /\ \A i \in 1..Len(connections) :
                  LET c == connections[i]
                  IN  /\ c.start \in DOMAIN network
                      /\ c.end \in DOMAIN network
                      /\ \E j \in 1..Len(network[c.start]) :
                            /\ network[c.start][j][1] = c.end
                            /\ network[c.start][j][2] = c.distance
                            /\ network[c.start][j][3].type = c.type
                            /\ \E k \in 1..Len(network[c.end]) :
                                  network[c.end][k] =
                                      <<c.start, c.distance, network[c.start][j][3]>>
            /\ \A a \in DOMAIN network : \A j \in 1..Len(network[a]) :
                  LET b == network[a][j][1]
                  IN  /\ b \in DOMAIN network
                      /\ \E k \in 1..Len(network[b]) :
                            network[b][k] = <<a, network[a][j][2], network[a][j][3]>>

\* C21 witness: a built network with two connections whose drawn attributes
\* differ.
C21_Witness ==
    /\ ai_routing_engine.phase = "network"
    /\ Len(ai_routing_engine.connections) >= 2
    /\ \E a, b \in DOMAIN ai_routing_engine.road_network :
          \E j \in 1..Len(ai_routing_engine.road_network[a]) :
             \E k \in 1..Len(ai_routing_engine.road_network[b]) :
                ai_routing_engine.road_network[a][j][3].digital_integration
                   # ai_routing_engine.road_network[b][k][3].digital_integration

(***************************************************************************)
(* Claims about the alert service, checked under SpecService                *)
(***************************************************************************)
\* LOW < MEDIUM < HIGH
LevelRank(level) ==
    CASE level = "LOW" -> 0 [] level = "MEDIUM" -> 1 [] level = "HIGH" -> 2

\* C29: generate_alert returns HIGH exactly when people_count > 1000 or fire or
\* stampede, MEDIUM exactly when 500 < people_count <= 1000 with neither flag,
\* and LOW otherwise; the level does not decrease when people_count grows or a
\* flag is set; and recommended_action is the action configured for the level.
C29_AlertLevelAndAction ==
    generated_alert.phase = "returned" =>
        LET in  == generated_alert.in
            out == generated_alert.out
            expected ==
                IF in.people_count > CROWD_THRESHOLD_HIGH \/ in.fire \/ in.stampede
                THEN "HIGH"
                ELSE IF in.people_count > CROWD_THRESHOLD_MEDIUM THEN "MEDIUM"
                ELSE "LOW"
        IN  /\ out.alert_level = expected
            /\ out.recommended_action = ALERT_ACTIONS(out.alert_level)
            /\ \A people_count \in PeopleCounts, fire \in BOOLEAN, stampede \in BOOLEAN :
                  (/\ people_count >= in.people_count
                   /\ in.fire => fire
                   /\ in.stampede => stampede)
                  => LevelRank(GenerateAlertResult(in.location_id, people_count,
                                                   fire, stampede).alert_level)
                         >= LevelRank(out.alert_level)

\* C29 witness: a fire was reported at a moderately crowded location and the
\* alert returned is HIGH with the evacuation action.
C29_Witness ==
    /\ generated_alert.phase = "returned"
    /\ generated_alert.in.people_count = 750
    /\ generated_alert.in.fire
    /\ ~generated_alert.in.stampede
    /\ generated_alert.out.alert_level = "HIGH"
    /\ generated_alert.out.recommended_action = "Evacuate area and deploy emergency response"

====
